---- MODULE Spec2Model ----
(***************************************************************************)
(* Model of the legal-document analytics pipeline of suimono/UAS:          *)
(*   scripts/01_pdf_to_text.py, 02_case_representation.py,                 *)
(*   03_retrieval.py, 04_predict.py, 05_evaluation.py, make_queries.py.    *)
(* Every stage reads the file the previous stage wrote, so every stage is  *)
(* a specification of its own over the variables it uses; the variables of *)
(* the other stages stay at their idle value.                              *)
(*                                                                         *)
(* Numbers: a raw cosine similarity is an integer 0..MaxSim; a normalized  *)
(* score s is kept exactly as the integer s * Scale, where Scale is twice  *)
(* the least common multiple of 1..MaxSim, so that the divisions of        *)
(* normalize_scores and the halving of retrieve_by_hybrid are exact.       *)
(* Text: a string is a sequence of one-character strings.                  *)
(***************************************************************************)
EXTENDS Integers, Sequences, FiniteSets, TLC

VARIABLES
    stage,        \* which script is running: "retrieval", "predict", ...
    rpc,          \* 03_retrieval.main: position in the loop over the methods
    top_k,        \* 03_retrieval: the top_k argument of the retrieve functions
    bert_ok,      \* 03_retrieval: BERT_MODEL is loaded and encode() does not raise
    sim,          \* 03_retrieval: similarities row of the query, per method
    order,        \* 03_retrieval: sim_scores.argsort()[::-1] of that row, per method
    hybrid_in,    \* 03_retrieval.retrieve_by_hybrid: tfidf_results, bert_results (top 2K)
                  \* and combined_scores
    results,      \* 03_retrieval.main: all_method_results_raw for the query
    output,       \* 03_retrieval.main: final_retrieval_results as written to
                  \* OUTPUT_PATH, empty before the write
    ppc,          \* 04_predict.main: position in the loop over the queries
    use_threshold,\* 04_predict: USE_PREDICTION_THRESHOLD
    retrieved,    \* 04_predict.main: method_data of the query entry read from
                  \* retrieved_cases.json
    vote,         \* 04_predict.weighted_majority_vote: its arguments and locals
    prediction,   \* 04_predict.main: the row appended to predictions_for_method
    epc,          \* 02_case_representation.process_all_cases: "files", "done"
    file_idx,     \* process_all_cases: index of the next file of txt_files
    extracted,    \* process_all_cases: results after the loop over the files
    success_count,\* process_all_cases: success_count
    error_count,  \* process_all_cases: error_count
    dup_log,      \* process_all_cases: the warnings logged by the duplicate check
    saved,        \* process_all_cases: the list written to OUTPUT_FILE, if written
    now_year,     \* text functions: datetime.now().year
    tpc,          \* text functions: "input", "cleaned" or "returned"
    fn,           \* text functions: the function that is applied
    doc,          \* text functions: the input text
    cleaned,      \* text functions: the text after the (first) normalization
    out           \* text functions: the value returned

retrievalVars == <<rpc, top_k, bert_ok, sim, order, hybrid_in, results, output>>
predictVars == <<ppc, use_threshold, retrieved, vote, prediction>>
extractVars == <<epc, file_idx, extracted, success_count, error_count, dup_log, saved>>
textVars == <<now_year, tpc, fn, doc, cleaned, out>>
vars == <<stage, retrievalVars, predictVars, extractVars, textVars>>

----------------------------------------------------------------------------
(* Bounds *)

NumCases == 3      \* cases in the case base that have a usable text
MaxSim == 1        \* raw similarities are 0..MaxSim
MaxK == 2          \* top_k is drawn from 1..MaxK
MaxRetrieved == 3  \* case ids in one retrieval list read by 04_predict
MaxFiles == 4      \* .txt files in RAW_DIR
MaxFrags == 3      \* fragments concatenated into a text given to a normalizer
MaxCitations == 3  \* fragments concatenated into a text given to extract_pasal
MaxDateFrags == 3  \* fragments concatenated into a text given to extract_tanggal
MaxMetaFrags == 2  \* fragments concatenated into a text given to extract_metadata
MaxItems == 2      \* elements of a JSON array read by main of 03_retrieval and 04_predict
MaxPdfs == 3       \* PDF files in the input directory of 01_pdf_to_text
MaxStatuteFrags == 3  \* fragments concatenated into a statute field
MaxNumberFrags == 3  \* fragments concatenated into an extracted case number
MaxOver == 1       \* a long field of a case exceeds its cut by 0..MaxOver characters
MaxRanked == 3     \* ids in a retrieved list and in a list of relevant ids given to the metrics
MaxStatutes == 5   \* statutes in the ground truth of a query given to the prediction metrics
MaxRows == 2       \* rows of a prediction file
MaxExtraStatutes == 1  \* statutes of one case beyond TOP_N_PREDICTED_PASALS
MaxNeighbours == 2     \* neighbours given to weighted_majority_vote
MaxNameFrags == 3  \* fragments in a text given to extract_personal_data
MaxSummaryFrags == 4  \* fragments in a text given to extract_ringkasan_fakta
MinLenArg == 4    \* the min_len given to extract_ringkasan_fakta
MaxLenArg == 12   \* the max_len given to extract_ringkasan_fakta
MaxRunPdfs == 2  \* PDF files found by main of 01_pdf_to_text

----------------------------------------------------------------------------
(* Arithmetic helpers *)

RECURSIVE Gcd(_, _)
Gcd(a, b) == IF b = 0 THEN a ELSE Gcd(b, a % b)

RECURSIVE LcmUpTo(_)
LcmUpTo(n) == IF n <= 1 THEN 1 ELSE LET l == LcmUpTo(n - 1) IN (l * n) \div Gcd(l, n)

\* the integer that stands for the score 1.0
Scale == 2 * LcmUpTo(MaxSim)

RECURSIVE SeqMin(_)
SeqMin(s) == IF Len(s) = 1 THEN s[1]
             ELSE LET m == SeqMin(Tail(s)) IN IF s[1] <= m THEN s[1] ELSE m

RECURSIVE SeqMax(_)
SeqMax(s) == IF Len(s) = 1 THEN s[1]
             ELSE LET m == SeqMax(Tail(s)) IN IF s[1] >= m THEN s[1] ELSE m

Take(s, n) == SubSeq(s, 1, IF n < Len(s) THEN n ELSE Len(s))

\* the concatenation of the sequences parts[lo], ..., parts[hi]
RECURSIVE ConcatRange(_, _, _)
ConcatRange(parts, lo, hi) ==
    IF lo > hi THEN <<>>
    ELSE IF lo = hi THEN parts[lo]
    ELSE ConcatRange(parts, lo, (lo + hi) \div 2) \o ConcatRange(parts, ((lo + hi) \div 2) + 1, hi)
Concat(parts) == ConcatRange(parts, 1, Len(parts))

----------------------------------------------------------------------------
(* Text: Python str as a sequence of one-character strings.  "NUL" stands   *)
(* for '\x00', "NBSP" for '\xa0' and "VT" for '\x0b' (a whitespace          *)
(* character that is neither blank, tab, CR nor LF).                        *)

UpperLetters == <<"A", "B", "C", "D", "E", "F", "G", "H", "I", "J", "K", "L", "M",
                  "N", "O", "P", "Q", "R", "S", "T", "U", "V", "W", "X", "Y", "Z">>
LowerLetters == <<"a", "b", "c", "d", "e", "f", "g", "h", "i", "j", "k", "l", "m",
                  "n", "o", "p", "q", "r", "s", "t", "u", "v", "w", "x", "y", "z">>
Upper == { UpperLetters[i] : i \in 1..26 }
Lower == { LowerLetters[i] : i \in 1..26 }
Letter == Upper \cup Lower
Digit == {"0", "1", "2", "3", "4", "5", "6", "7", "8", "9"}
\* \s of the re module, and the characters str.strip() removes
Space == {" ", "\t", "\n", "\r", "VT"}
\* \w of the re module
WordChar == Letter \cup Digit \cup {"_"}

\* the characters of the model in code point order
CodePointOrder ==
    <<"NUL", "\t", "\n", "VT", "\r", " ", "(", ")", "*", ",", "-", ".", "/",
      "0", "1", "2", "3", "4", "5", "6", "7", "8", "9", ":", ";", "=">>
    \o UpperLetters \o <<"_">> \o LowerLetters \o <<"NBSP">>
Ord(c) == CHOOSE i \in 1..Len(CodePointOrder) : CodePointOrder[i] = c

\* str.lower() and str.upper() of one character
LowerChar(c) == IF c \in Upper THEN LowerLetters[CHOOSE i \in 1..26 : UpperLetters[i] = c] ELSE c
UpperChar(c) == IF c \in Lower THEN UpperLetters[CHOOSE i \in 1..26 : LowerLetters[i] = c] ELSE c

\* str.lower()
StrLower(s) == [i \in 1..Len(s) |-> LowerChar(s[i])]

\* str.title(): a letter that follows a letter is lowered, any other letter
\* is raised
StrTitle(s) ==
    [i \in 1..Len(s) |->
        IF i > 1 /\ s[i - 1] \in Letter THEN LowerChar(s[i]) ELSE UpperChar(s[i])]

\* str.strip()
RECURSIVE LStrip(_)
LStrip(s) == IF s # <<>> /\ Head(s) \in Space THEN LStrip(Tail(s)) ELSE s
RECURSIVE RStrip(_)
RStrip(s) == IF s # <<>> /\ s[Len(s)] \in Space THEN RStrip(SubSeq(s, 1, Len(s) - 1)) ELSE s
Strip(s) == RStrip(LStrip(s))

\* s < t in Python's string order
RECURSIVE StrLess(_, _)
StrLess(s, t) ==
    IF t = <<>> THEN FALSE
    ELSE IF s = <<>> THEN TRUE
    ELSE IF Head(s) = Head(t) THEN StrLess(Tail(s), Tail(t))
    ELSE Ord(Head(s)) < Ord(Head(t))

\* sep.join(parts)
RECURSIVE Join(_, _)
Join(sep, parts) ==
    IF parts = <<>> THEN <<>>
    ELSE IF Len(parts) = 1 THEN parts[1]
    ELSE parts[1] \o sep \o Join(sep, Tail(parts))

\* list(dict.fromkeys(items)): first occurrences, in order
RECURSIVE Unique(_)
Unique(items) ==
    IF items = <<>> THEN <<>>
    ELSE LET front == Unique(SubSeq(items, 1, Len(items) - 1))
             last == items[Len(items)]
         IN IF \E i \in 1..Len(front) : front[i] = last THEN front ELSE Append(front, last)

----------------------------------------------------------------------------
(* Regular expressions of the re module: a pattern is a tree, matched by    *)
(* backtracking in the order re tries the alternatives.                     *)

InfRep == 1000000
Cls(set) == [t |-> "cls", set |-> set]
Cat(rs) == [t |-> "cat", rs |-> rs]
Alt(rs) == [t |-> "alt", rs |-> rs]
Rep(r, min, max) == [t |-> "rep", r |-> r, min |-> min, max |-> max, greedy |-> TRUE]
LazyRep(r, min, max) == [t |-> "rep", r |-> r, min |-> min, max |-> max, greedy |-> FALSE]
Star(r) == Rep(r, 0, InfRep)
Plus(r) == Rep(r, 1, InfRep)
Opt(r) == Rep(r, 0, 1)
Grp(n, r) == [t |-> "grp", n |-> n, r |-> r]
Bos == [t |-> "bos"]
Eos == [t |-> "eos"]
\* \b
Wb == [t |-> "wb"]
\* a literal, case-sensitive and under re.IGNORECASE
Lit(s) == [t |-> "lit", sets |-> [i \in 1..Len(s) |-> {s[i]}]]
LitI(s) == [t |-> "lit", sets |-> [i \in 1..Len(s) |-> {LowerChar(s[i]), UpperChar(s[i])}]]

NoGroups == [n \in 1..4 |-> <<0, 0>>]
NoMatch == [ok |-> FALSE, start |-> 0, end |-> 0, groups |-> NoGroups]

\* the length of the longest run of characters of set from position i of s,
\* up to max characters
RunLength(set, s, i, max) ==
    LET limit == IF max < Len(s) - i + 1 THEN max ELSE Len(s) - i + 1
        stops == { k \in 1..limit : s[i + k - 1] \notin set }
    IN IF stops = {} THEN limit
       ELSE (CHOOSE k \in stops : \A other \in stops : k <= other) - 1

\* the first of two attempts that matched
OrElse(first, second) == IF first.ok THEN first ELSE second

\* A match in progress: the patterns still to match one after the other
\* (stack), the position in the text (i), the groups, and the alternatives
\* not tried yet (pending), the one to try first at the end.
Running(stack, i, groups, pending) ==
    [status |-> "run", stack |-> stack, i |-> i, groups |-> groups, pending |-> pending]
Choice(stack, i, groups) == [stack |-> stack, i |-> i, groups |-> groups]

\* the run lengths lo..hi of a repeated character that are still to try
RunOf(lo, hi, greedy) == [t |-> "run", lo |-> lo, hi |-> hi, greedy |-> greedy]

\* the attempt failed: go on with the alternative saved last
Backtrack(m) ==
    IF m.pending = <<>> THEN [m EXCEPT !.status = "fail"]
    ELSE Running(m.pending[Len(m.pending)].stack, m.pending[Len(m.pending)].i,
                 m.pending[Len(m.pending)].groups, SubSeq(m.pending, 1, Len(m.pending) - 1))

\* one step of the match on the pattern r at the head of the stack
StepOn(r, rest, s, m) ==
    CASE r.t = "cls" ->
            IF m.i <= Len(s) /\ s[m.i] \in r.set
            THEN [m EXCEPT !.stack = rest, !.i = @ + 1]
            ELSE Backtrack(m)
      [] r.t = "lit" ->
            IF /\ m.i + Len(r.sets) - 1 <= Len(s)
               /\ \A j \in 1..Len(r.sets) : s[m.i + j - 1] \in r.sets[j]
            THEN [m EXCEPT !.stack = rest, !.i = @ + Len(r.sets)]
            ELSE Backtrack(m)
      [] r.t = "cat" -> [m EXCEPT !.stack = r.rs \o rest]
      [] r.t = "alt" ->
            IF r.rs = <<>> THEN Backtrack(m)
            ELSE [m EXCEPT !.stack = <<Head(r.rs)>> \o rest,
                           !.pending = Append(@, Choice(<<Alt(Tail(r.rs))>> \o rest, m.i, m.groups))]
      [] r.t = "rep" /\ r.r.t = "cls" ->
            \* the repetition of one character: the run lengths to try
            [m EXCEPT !.stack = <<RunOf(r.min, RunLength(r.r.set, s, m.i, r.max), r.greedy)>> \o rest]
      [] r.t = "run" ->
            \* greedy: the longest run first; lazy: the shortest run first
            IF r.lo > r.hi THEN Backtrack(m)
            ELSE IF r.greedy
            THEN [m EXCEPT !.stack = rest, !.i = @ + r.hi,
                           !.pending = Append(@, Choice(<<RunOf(r.lo, r.hi - 1, TRUE)>> \o rest, m.i, m.groups))]
            ELSE [m EXCEPT !.stack = rest, !.i = @ + r.lo,
                           !.pending = Append(@, Choice(<<RunOf(r.lo + 1, r.hi, FALSE)>> \o rest, m.i, m.groups))]
      [] r.t = "rep" /\ r.r.t # "cls" ->
            IF r.min > 0
            THEN [m EXCEPT !.stack = <<r.r, [r EXCEPT !.min = @ - 1, !.max = @ - 1]>> \o rest]
            ELSE IF r.max = 0 THEN [m EXCEPT !.stack = rest]
            ELSE IF r.greedy
            THEN [m EXCEPT !.stack = <<r.r, [r EXCEPT !.max = @ - 1]>> \o rest,
                           !.pending = Append(@, Choice(rest, m.i, m.groups))]
            ELSE [m EXCEPT !.stack = rest,
                           !.pending = Append(@, Choice(<<r.r, [r EXCEPT !.max = @ - 1]>> \o rest,
                                                      m.i, m.groups))]
      [] r.t = "grp" ->
            [m EXCEPT !.stack = <<[t |-> "open", n |-> r.n], r.r, [t |-> "close", n |-> r.n]>> \o rest]
      [] r.t = "open" -> [m EXCEPT !.stack = rest, !.groups[r.n] = <<m.i, m.i>>]
      [] r.t = "close" -> [m EXCEPT !.stack = rest, !.groups[r.n] = <<@[1], m.i>>]
      [] r.t = "wb" ->
            IF (m.i > 1 /\ s[m.i - 1] \in WordChar) # (m.i <= Len(s) /\ s[m.i] \in WordChar)
            THEN [m EXCEPT !.stack = rest]
            ELSE Backtrack(m)
      [] r.t = "bos" -> IF m.i = 1 THEN [m EXCEPT !.stack = rest] ELSE Backtrack(m)
      [] r.t = "eos" -> IF m.i = Len(s) + 1 THEN [m EXCEPT !.stack = rest] ELSE Backtrack(m)

Step(m, s) ==
    IF m.stack = <<>> THEN [m EXCEPT !.status = "ok"]
    ELSE StepOn(Head(m.stack), Tail(m.stack), s, m)

\* at most n steps of the match
RECURSIVE Run(_, _, _)
Run(m, s, n) ==
    IF m.status # "run" THEN m
    ELSE IF n = 1 THEN Step(m, s)
    ELSE Run(Run(m, s, n \div 2), s, n - (n \div 2))

\* the steps of the match up to its end
RECURSIVE RunAll(_, _, _)
RunAll(m, s, n) == IF m.status # "run" THEN m ELSE RunAll(Run(m, s, n), s, 2 * n)

MatchResult(m) ==
    IF m.status = "ok" THEN [ok |-> TRUE, start |-> 0, end |-> m.i, groups |-> m.groups]
    ELSE NoMatch

\* match the patterns of stack one after the other from position i of s
MatchSeq(stack, s, i, groups) == MatchResult(RunAll(Running(stack, i, groups, <<>>), s, 16))

\* pattern.match(s, pos): a match that starts at position pos
\* r matches the empty text
RECURSIVE Nullable(_)
Nullable(r) ==
    CASE r.t = "cls" -> FALSE
      [] r.t = "lit" -> r.sets = <<>>
      [] r.t = "cat" -> \A k \in 1..Len(r.rs) : Nullable(r.rs[k])
      [] r.t = "alt" -> \E k \in 1..Len(r.rs) : Nullable(r.rs[k])
      [] r.t = "rep" -> r.min = 0 \/ Nullable(r.r)
      [] r.t = "grp" -> Nullable(r.r)
      [] OTHER -> TRUE

\* a non-empty match of r can start with the character c
RECURSIVE StartsWith(_, _)
StartsWith(r, c) ==
    CASE r.t = "cls" -> c \in r.set
      [] r.t = "lit" -> r.sets # <<>> /\ c \in r.sets[1]
      [] r.t = "cat" -> \E k \in 1..Len(r.rs) :
                            /\ \A j \in 1..(k - 1) : Nullable(r.rs[j])
                            /\ StartsWith(r.rs[k], c)
      [] r.t = "alt" -> \E k \in 1..Len(r.rs) : StartsWith(r.rs[k], c)
      [] r.t = "rep" -> r.max > 0 /\ StartsWith(r.r, c)
      [] r.t = "grp" -> StartsWith(r.r, c)
      [] OTHER -> FALSE

\* no match of r starts at position i of s: r needs a first character and
\* the character at position i is not one it can start with
CannotStart(r, s, i) ==
    ~Nullable(r) /\ ~(i <= Len(s) /\ StartsWith(r, s[i]))
MatchAt(r, s, pos) ==
    IF CannotStart(r, s, pos) THEN NoMatch
    ELSE [MatchSeq(<<r>>, s, pos, NoGroups) EXCEPT !.start = pos]

\* pattern.search(s, pos): the leftmost match at or after position pos
RECURSIVE SearchIn(_, _, _, _)
SearchIn(r, s, lo, hi) ==
    IF lo > hi THEN NoMatch
    ELSE IF lo = hi THEN OrElse(MatchAt(r, s, lo), NoMatch)
    ELSE OrElse(SearchIn(r, s, lo, (lo + hi) \div 2), SearchIn(r, s, ((lo + hi) \div 2) + 1, hi))
Search(r, s, pos) == SearchIn(r, s, pos, Len(s) + 1)

\* re.fullmatch(pattern, s)
FullMatch(r, s) == MatchAt(Cat(<<r, Eos>>), s, 1).ok

\* pattern.finditer(s): the successive non-overlapping matches
\* f holds the matches found so far and the position of the next search
FindNext(f, m) ==
    IF ~m.ok THEN [f EXCEPT !.done = TRUE]
    ELSE [matches |-> Append(f.matches, m),
          pos |-> IF m.end > m.start THEN m.end ELSE m.end + 1,
          done |-> FALSE]
\* at most n more matches
RECURSIVE FindSome(_, _, _, _)
FindSome(f, r, s, n) ==
    IF f.done THEN f
    ELSE IF n = 1 THEN FindNext(f, Search(r, s, f.pos))
    ELSE FindSome(FindSome(f, r, s, n \div 2), r, s, n - (n \div 2))
RECURSIVE FindAll(_, _, _, _)
FindAll(f, r, s, n) == IF f.done THEN f ELSE FindAll(FindSome(f, r, s, n), r, s, 2 * n)
FindIter(r, s, pos) ==
    FindAll([matches |-> <<>>, pos |-> pos, done |-> FALSE], r, s, 4).matches

\* m.group(0) and m.group(n)
Group0(s, m) == SubSeq(s, m.start, m.end - 1)
GroupN(s, m, n) == SubSeq(s, m.groups[n][1], m.groups[n][2] - 1)

\* the expansion of a replacement template for the match m; the element
\* "\\1" of a template stands for the text of group 1
RECURSIVE Expand(_, _, _)
Expand(repl, s, m) ==
    IF repl = <<>> THEN <<>>
    ELSE (IF Head(repl) = "\\1" THEN GroupN(s, m, 1) ELSE <<Head(repl)>>)
         \o Expand(Tail(repl), s, m)

\* re.sub(pattern, repl, s, count); a negative count here replaces every match
\* the text up to each replaced match followed by its replacement, and the
\* text after the last replaced match
SubPieces(repl, s, ms) ==
    [k \in 1..(Len(ms) + 1) |->
        SubSeq(s, IF k = 1 THEN 1 ELSE ms[k - 1].end,
                  IF k > Len(ms) THEN Len(s) ELSE ms[k].start - 1)
        \o (IF k > Len(ms) THEN <<>> ELSE Expand(repl, s, ms[k]))]
\* re.sub on the empty text: the replacement when the pattern matches the
\* empty text, the empty text otherwise
SubEmpty(r, repl) ==
    IF MatchAt(r, <<>>, 1).ok THEN Expand(repl, <<>>, MatchAt(r, <<>>, 1)) ELSE <<>>
ReSub(r, repl, s) ==
    IF s = <<>> THEN SubEmpty(r, repl)
    ELSE Concat(SubPieces(repl, s, FindIter(r, s, 1)))
ReSubCount(r, repl, s, count) ==
    IF s = <<>> THEN (IF count = 0 THEN <<>> ELSE SubEmpty(r, repl))
    ELSE Concat(SubPieces(repl, s, IF count < 0 THEN FindIter(r, s, 1)
                                   ELSE Take(FindIter(r, s, 1), count)))

\* str.replace(old, new)
RECURSIVE Replace(_, _, _)
\* the text after the occurrence of old at position k of s is replaced
ReplaceAt(s, old, new, k) ==
    SubSeq(s, 1, k - 1) \o new \o Replace(SubSeq(s, k + Len(old), Len(s)), old, new)
Replace(s, old, new) ==
    IF \E k \in 1..(Len(s) - Len(old) + 1) : SubSeq(s, k, k + Len(old) - 1) = old
    THEN ReplaceAt(s, old, new,
                   CHOOSE k \in 1..(Len(s) - Len(old) + 1) :
                       /\ SubSeq(s, k, k + Len(old) - 1) = old
                       /\ \A j \in 1..(k - 1) : SubSeq(s, j, j + Len(old) - 1) # old)
    ELSE s

\* needle in s
Contains(s, needle) ==
    \E i \in 1..(Len(s) - Len(needle) + 1) : SubSeq(s, i, i + Len(needle) - 1) = needle

----------------------------------------------------------------------------
(* 03_retrieval.py *)

Methods == <<"TF-IDF", "BERT", "Hybrid">>

\* main, lines 273-284: the identifiers of the cases that have a usable text,
\* in corpus order; the case base written by process_all_cases has pairwise
\* distinct identifiers.
case_ids == [j \in 1..NumCases |-> 100 + j]

EmptyResult == [case_ids |-> <<>>, scores |-> <<>>]

\* 04_predict.py: the locals of weighted_majority_vote and the prediction row
\* before the query is processed
NoVote == [cases_with_scores |-> <<>>, pasal_weighted_scores |-> <<>>,
           predicted_pasals_final |-> <<>>]
NoPrediction == [predicted_solution |-> <<>>, top_retrieved_case_ids_for_method |-> <<>>]

\* the values of a stage's variables while another stage runs
IdleRetrieval ==
    /\ rpc = 0 /\ top_k = 0 /\ bert_ok = FALSE
    /\ sim = <<>> /\ order = <<>> /\ hybrid_in = <<>> /\ results = <<>> /\ output = <<>>

IdlePredict ==
    /\ ppc = 0 /\ use_threshold = FALSE /\ retrieved = EmptyResult
    /\ vote = NoVote /\ prediction = NoPrediction

NotWritten == [written |-> FALSE, cases |-> <<>>]

IdleText == now_year = 0 /\ tpc = "idle" /\ fn = "none" /\ doc = <<>> /\ cleaned = <<>> /\ out = <<>>

IdleExtract ==
    /\ epc = "idle" /\ file_idx = 0 /\ extracted = <<>>
    /\ success_count = 0 /\ error_count = 0 /\ dup_log = <<>> /\ saved = NotWritten

\* lines 144-152 and 185-188: the similarities of the query to every case are
\* computed inside the retrieve function; the same texts give the same row
\* and the same argsort in the later call made by retrieve_by_hybrid.
NotComputed == <<>>

\* normalize_scores with the all-equal case mapped to 1.0 instead of 0.0
normalize_scores_EqualToOne(scores) ==
    IF scores = <<>> THEN <<>>
    ELSE LET min_score == SeqMin(scores)
             max_score == SeqMax(scores)
         IN IF max_score = min_score
            THEN [i \in 1..Len(scores) |-> Scale]
            ELSE [i \in 1..Len(scores) |->
                     ((scores[i] - min_score) * Scale) \div (max_score - min_score)]

\* normalize_scores, lines 112-120
normalize_scores(scores) ==
    IF scores = <<>> THEN <<>>
    ELSE LET min_score == SeqMin(scores)
             max_score == SeqMax(scores)
         IN IF max_score = min_score
            THEN [i \in 1..Len(scores) |-> 0]
            ELSE [i \in 1..Len(scores) |->
                     ((scores[i] - min_score) * Scale) \div (max_score - min_score)]

\* sim_scores.argsort()[::-1], lines 156 and 192: numpy's default argsort is
\* not a stable sort, so among equal similarities the order of the indices is
\* whatever the build produces; every permutation that lists the similarities
\* in non-increasing order is a possible outcome.
ArgsortDescending(sim_scores) ==
    { p \in Permutations(1..Len(sim_scores)) :
        \A a \in 1..(Len(sim_scores) - 1) : sim_scores[p[a]] >= sim_scores[p[a + 1]] }

\* the loop body without the [:top_k] cut
RankRow_NoCut(sim_scores, sorted_indices, k) ==
    LET top_indices == sorted_indices
        top_cases_ids == [i \in 1..Len(top_indices) |-> case_ids[top_indices[i]]]
        similarity_scores == [i \in 1..Len(top_indices) |-> sim_scores[top_indices[i]]]
    IN [case_ids |-> top_cases_ids, scores |-> normalize_scores(similarity_scores)]

\* the loop body of retrieve_by_tfidf / retrieve_by_bert, lines 155-163 and 191-199
RankRow(sim_scores, sorted_indices, k) ==
    LET top_indices == Take(sorted_indices, k)
        top_cases_ids == [i \in 1..Len(top_indices) |-> case_ids[top_indices[i]]]
        similarity_scores == [i \in 1..Len(top_indices) |-> sim_scores[top_indices[i]]]
    IN [case_ids |-> top_cases_ids, scores |-> normalize_scores(similarity_scores)]

\* retrieve_by_tfidf, lines 124-166 (one query); similarities is the query's
\* row of cosine_similarity and sorted_indices its argsort()[::-1]
retrieve_by_tfidf(similarities, sorted_indices, k) ==
    RankRow(similarities, sorted_indices, k)

\* retrieve_by_bert, lines 168-205 (one query); model_ok is false when
\* BERT_MODEL is None (line 176) or encode raises (line 203)
retrieve_by_bert(model_ok, similarities, sorted_indices, k) ==
    IF ~model_ok THEN EmptyResult
    ELSE RankRow(similarities, sorted_indices, k)

\* combined_scores.get(case_id, 0.0) on a dict kept as a sequence of
\* <<key, value>> pairs in insertion order
DictGet(d, key, default) ==
    IF \E i \in 1..Len(d) : d[i][1] = key
    THEN d[CHOOSE i \in 1..Len(d) : d[i][1] = key][2]
    ELSE default

\* combined_scores[case_id] = value: an existing key keeps its position
DictPut(d, key, value) ==
    IF \E i \in 1..Len(d) : d[i][1] = key
    THEN [i \in 1..Len(d) |-> IF d[i][1] = key THEN <<key, value>> ELSE d[i]]
    ELSE Append(d, <<key, value>>)

\* the loop with combined_scores[case_id] = score * 0.5, which forgets the
\* half score already stored for the id
RECURSIVE AddHalfScores_Overwrite(_, _, _)
AddHalfScores_Overwrite(d, res, idx) ==
    IF idx > Len(res.case_ids) THEN d
    ELSE AddHalfScores_Overwrite(
            DictPut(d, res.case_ids[idx], res.scores[idx] \div 2), res, idx + 1)

\* lines 226-228 and 230-232: one loop over a method's result
RECURSIVE AddHalfScores(_, _, _)
AddHalfScores(d, res, idx) ==
    IF idx > Len(res.case_ids) THEN d
    ELSE AddHalfScores(
            DictPut(d, res.case_ids[idx],
                    DictGet(d, res.case_ids[idx], 0) + (res.scores[idx] \div 2)),
            res, idx + 1)

\* a descending sort that lists equal values in the reverse of their dict order
RECURSIVE SortedByValueDesc_TiesReversed(_)
SortedByValueDesc_TiesReversed(d) ==
    IF d = <<>> THEN <<>>
    ELSE LET best == CHOOSE i \in 1..Len(d) :
                        /\ \A j \in 1..Len(d) : d[j][2] <= d[i][2]
                        /\ \A j \in (i + 1)..Len(d) : d[j][2] < d[i][2]
         IN <<d[best]>> \o
            SortedByValueDesc_TiesReversed([j \in 1..(Len(d) - 1) |-> IF j < best THEN d[j] ELSE d[j + 1]])

\* sorted(items, key=lambda item: item[1], reverse=True): Python's sort is
\* stable, also with reverse=True, so equal values keep their dict order
RECURSIVE SortedByValueDesc(_)
SortedByValueDesc(d) ==
    IF d = <<>> THEN <<>>
    ELSE LET best == CHOOSE i \in 1..Len(d) :
                        /\ \A j \in 1..Len(d) : d[j][2] <= d[i][2]
                        /\ \A j \in 1..(i - 1) : d[j][2] < d[i][2]
         IN <<d[best]>> \o
            SortedByValueDesc([j \in 1..(Len(d) - 1) |-> IF j < best THEN d[j] ELSE d[j + 1]])

\* retrieve_by_hybrid, lines 224-232: combined_scores after the two loops
CombinedScores(tfidf_results, bert_results) ==
    AddHalfScores(AddHalfScores(<<>>, tfidf_results, 1), bert_results, 1)

\* the hybrid result that cuts the ids to the top k and keeps every score
HybridTop_ScoresUncut(combined_scores, k) ==
    LET sorted_cases == SortedByValueDesc(combined_scores)
    IN [case_ids |-> [i \in 1..Len(Take(sorted_cases, k)) |-> sorted_cases[i][1]],
        scores |-> [i \in 1..Len(sorted_cases) |-> sorted_cases[i][2]]]

\* retrieve_by_hybrid, lines 234-239
HybridTop(combined_scores, k) ==
    LET sorted_cases == Take(SortedByValueDesc(combined_scores), k)
    IN [case_ids |-> [i \in 1..Len(sorted_cases) |-> sorted_cases[i][1]],
        scores |-> [i \in 1..Len(sorted_cases) |-> sorted_cases[i][2]]]

----------------------------------------------------------------------------
(* 03_retrieval.main, lines 309-321: the loop over retrieval_methods_config *)

NoResults == [m \in {"TF-IDF", "BERT", "Hybrid"} |-> EmptyResult]

\* main, lines 286-296: the identifier of the query
query_id == "query_1"

\* the merge of lines 323-336 that leaves out a method whose result for the
\* query is empty
final_retrieval_results_SkipEmpty(query_ids, all_method_results_raw) ==
    [i \in 1..Len(query_ids) |->
        [query_id |-> query_ids[i],
         retrieval_results |->
            [m \in { n \in {"TF-IDF", "BERT", "Hybrid"} :
                        all_method_results_raw[query_ids[i]][n].case_ids # <<>> } |->
                all_method_results_raw[query_ids[i]][m]]]]

\* main, lines 323-336: one entry per query id, holding case_ids and scores
\* of every method; all_method_results_raw is indexed here by query id, then
\* by method
final_retrieval_results(query_ids, all_method_results_raw) ==
    [i \in 1..Len(query_ids) |->
        [query_id |-> query_ids[i],
         retrieval_results |->
            [m \in {"TF-IDF", "BERT", "Hybrid"} |->
                [case_ids |-> all_method_results_raw[query_ids[i]][m].case_ids,
                 scores |-> all_method_results_raw[query_ids[i]][m].scores]]]]

InitRetrieval ==
    /\ stage = "retrieval"
    /\ rpc = 1
    /\ top_k \in 1..MaxK
    /\ bert_ok \in BOOLEAN
    /\ sim = [m \in {"TF-IDF", "BERT"} |-> NotComputed]
    /\ order = [m \in {"TF-IDF", "BERT"} |-> NotComputed]
    /\ hybrid_in = [tfidf |-> EmptyResult, bert |-> EmptyResult, combined |-> <<>>]
    /\ results = NoResults
    /\ output = <<>>
    /\ IdlePredict /\ IdleExtract /\ IdleText

RetrieveTfidf ==
    /\ stage = "retrieval" /\ rpc = 1
    /\ \E similarities \in [1..NumCases -> 0..MaxSim] :
          \E sorted_indices \in ArgsortDescending(similarities) :
              /\ sim' = [sim EXCEPT !["TF-IDF"] = similarities]
              /\ order' = [order EXCEPT !["TF-IDF"] = sorted_indices]
              /\ results' = [results EXCEPT
                    !["TF-IDF"] = retrieve_by_tfidf(similarities, sorted_indices, top_k)]
    /\ rpc' = 2
    /\ UNCHANGED <<stage, top_k, bert_ok, hybrid_in, output, predictVars, extractVars, textVars>>

RetrieveBert ==
    /\ stage = "retrieval" /\ rpc = 2
    /\ IF bert_ok
       THEN \E similarities \in [1..NumCases -> 0..MaxSim] :
               \E sorted_indices \in ArgsortDescending(similarities) :
                   /\ sim' = [sim EXCEPT !["BERT"] = similarities]
                   /\ order' = [order EXCEPT !["BERT"] = sorted_indices]
                   /\ results' = [results EXCEPT
                         !["BERT"] = retrieve_by_bert(TRUE, similarities, sorted_indices, top_k)]
       ELSE /\ UNCHANGED <<sim, order>>
            /\ results' = [results EXCEPT
                  !["BERT"] = retrieve_by_bert(FALSE, NotComputed, NotComputed, top_k)]
    /\ rpc' = 3
    /\ UNCHANGED <<stage, top_k, bert_ok, hybrid_in, output, predictVars, extractVars, textVars>>

RetrieveHybrid ==
    /\ stage = "retrieval" /\ rpc = 3
    /\ LET tfidf_results == retrieve_by_tfidf(sim["TF-IDF"], order["TF-IDF"], top_k * 2)
           bert_results == retrieve_by_bert(bert_ok, sim["BERT"], order["BERT"], top_k * 2)
           combined_scores == CombinedScores(tfidf_results, bert_results)
       IN /\ hybrid_in' = [tfidf |-> tfidf_results, bert |-> bert_results,
                           combined |-> combined_scores]
          /\ results' = [results EXCEPT !["Hybrid"] = HybridTop(combined_scores, top_k)]
    /\ output' = final_retrieval_results(<<query_id>>, [q \in {query_id} |-> results'])
    /\ rpc' = 4
    /\ UNCHANGED <<stage, top_k, bert_ok, sim, order, predictVars, extractVars, textVars>>

NextRetrieval == RetrieveTfidf \/ RetrieveBert \/ RetrieveHybrid

SpecRetrieval == InitRetrieval /\ [][NextRetrieval]_vars

----------------------------------------------------------------------------
(* Properties of the retrieval stage *)

\* position of a case identifier in the corpus
CorpusIndex(case_id) == CHOOSE j \in 1..NumCases : case_ids[j] = case_id

\* the result lists that are normalized by normalize_scores: the lexical and
\* the dense result, and the two top-2K lists inside retrieve_by_hybrid
NormalizedLists ==
    { <<"TF-IDF", results["TF-IDF"]>>, <<"BERT", results["BERT"]>>,
      <<"TF-IDF", hybrid_in.tfidf>>, <<"BERT", hybrid_in.bert>> }

\* the score of case_id in a result list, 0 when it is not in the list
ScoreIn(res, case_id) ==
    IF \E i \in 1..Len(res.case_ids) : res.case_ids[i] = case_id
    THEN res.scores[CHOOSE i \in 1..Len(res.case_ids) : res.case_ids[i] = case_id]
    ELSE 0

IdsOf(res) == { res.case_ids[i] : i \in 1..Len(res.case_ids) }

\* C1: every score of every method's result is within [0,1] (0..Scale), and
\* when the raw similarities of the selected cases of a lexical or dense
\* result are all equal (a single result included) every score is 0.0.
C1_ScoreBounds ==
    /\ \A m \in {"TF-IDF", "BERT", "Hybrid"} :
          \A i \in 1..Len(results[m].scores) :
              results[m].scores[i] >= 0 /\ results[m].scores[i] <= Scale
    /\ \A l \in NormalizedLists :
          (\A i \in 2..Len(l[2].case_ids) :
               sim[l[1]][CorpusIndex(l[2].case_ids[i])] = sim[l[1]][CorpusIndex(l[2].case_ids[1])])
          => \A i \in 1..Len(l[2].scores) : l[2].scores[i] = 0

\* witness of C1: the three methods have run; the lexical result holds two
\* cases of equal raw similarity 1, both scored 0.0, and the dense result
\* holds a score 1.0 and a score 0.0
C1_Witness ==
    /\ rpc = 4
    /\ Len(results["TF-IDF"].scores) = 2
    /\ \A i \in 1..2 : sim["TF-IDF"][CorpusIndex(results["TF-IDF"].case_ids[i])] = 1
    /\ results["TF-IDF"].scores = <<0, 0>>
    /\ results["BERT"].scores = <<Scale, 0>>
    /\ \E i \in 1..Len(results["Hybrid"].scores) : results["Hybrid"].scores[i] > 0

\* C2: every method's result holds at most top_k case ids and its scores
\* are in non-increasing order.
C2_TopKSorted ==
    \A m \in {"TF-IDF", "BERT", "Hybrid"} :
        /\ Len(results[m].case_ids) <= top_k
        /\ \A i \in 1..(Len(results[m].scores) - 1) :
              results[m].scores[i] >= results[m].scores[i + 1]

\* witness of C2: more cases than top_k, every method returned exactly
\* top_k = 2 results, with strictly decreasing scores
C2_Witness ==
    /\ rpc = 4 /\ top_k = 2 /\ NumCases > top_k
    /\ \A m \in {"TF-IDF", "BERT", "Hybrid"} :
          /\ Len(results[m].case_ids) = 2
          /\ results[m].scores[1] > results[m].scores[2]

\* C3: in the lexical and the dense result, cases of equal raw similarity
\* appear in corpus order, and when a tie straddles the top-K cut the case
\* with the lower corpus index is the one kept.
C3_TiesInCorpusOrder ==
    \A m \in {"TF-IDF", "BERT"} :
        LET res == results[m] IN
        /\ \A a, b \in 1..Len(res.case_ids) :
              (a < b /\ sim[m][CorpusIndex(res.case_ids[a])] = sim[m][CorpusIndex(res.case_ids[b])])
              => CorpusIndex(res.case_ids[a]) < CorpusIndex(res.case_ids[b])
        /\ \A a \in 1..Len(res.case_ids) : \A j \in 1..NumCases :
              (case_ids[j] \notin IdsOf(res) /\ sim[m][j] = sim[m][CorpusIndex(res.case_ids[a])])
              => CorpusIndex(res.case_ids[a]) < j

\* C4: the hybrid fusion law. Every case id of the lexical or the dense
\* top-2K list has the combined score 0.5*a + 0.5*b, a and b being its scores
\* in the two lists (0 for a list it is not in); the hybrid result takes its
\* ids and scores from the combined scores, so an id of neither list is never
\* in the hybrid result.
C4_HybridFusion ==
    rpc = 4 =>
        /\ { hybrid_in.combined[i][1] : i \in 1..Len(hybrid_in.combined) }
              = IdsOf(hybrid_in.tfidf) \cup IdsOf(hybrid_in.bert)
        /\ \A i \in 1..Len(hybrid_in.combined) :
              2 * hybrid_in.combined[i][2]
                 = ScoreIn(hybrid_in.tfidf, hybrid_in.combined[i][1])
                   + ScoreIn(hybrid_in.bert, hybrid_in.combined[i][1])
        /\ \A i \in 1..Len(results["Hybrid"].case_ids) :
              /\ results["Hybrid"].case_ids[i] \in IdsOf(hybrid_in.tfidf) \cup IdsOf(hybrid_in.bert)
              /\ 2 * results["Hybrid"].scores[i]
                    = ScoreIn(hybrid_in.tfidf, results["Hybrid"].case_ids[i])
                      + ScoreIn(hybrid_in.bert, results["Hybrid"].case_ids[i])

\* witness of C4: the corpus is larger than 2K; one case is in both top-2K
\* lists with positive scores a and b and is in the hybrid result, one case is
\* in the lexical list only and one in the dense list only
C4_Witness ==
    /\ rpc = 4
    /\ \E c \in IdsOf(hybrid_in.tfidf) \cap IdsOf(hybrid_in.bert) :
          /\ ScoreIn(hybrid_in.tfidf, c) > 0 /\ ScoreIn(hybrid_in.bert, c) > 0
          /\ c \in IdsOf(results["Hybrid"])
    /\ IdsOf(hybrid_in.tfidf) \ IdsOf(hybrid_in.bert) # {}
    /\ IdsOf(hybrid_in.bert) \ IdsOf(hybrid_in.tfidf) # {}
    /\ NumCases > 2 * top_k

\* C14: when the embedding model is unavailable or the embedding call raises,
\* the dense result of the query is the empty case_ids list with the empty
\* scores list, the lexical result is the ranking of the lexical similarities
\* that it is with the model available, and the output written holds an entry
\* for the query with case_ids and scores of every one of the three methods.
C14_DenseDegradesToEmpty ==
    ~bert_ok =>
        /\ rpc >= 3 => results["BERT"] = [case_ids |-> <<>>, scores |-> <<>>]
        /\ rpc >= 2 => results["TF-IDF"] = RankRow(sim["TF-IDF"], order["TF-IDF"], top_k)
        /\ rpc = 4 =>
              /\ Len(output) = 1
              /\ output[1].query_id = query_id
              /\ DOMAIN output[1].retrieval_results = {"TF-IDF", "BERT", "Hybrid"}
              /\ \A m \in {"TF-IDF", "BERT", "Hybrid"} : output[1].retrieval_results[m] = results[m]

\* witness of C14: the stage has written its output without the embedding
\* model; the lexical entry holds two cases and the dense entry none
C14_Witness ==
    /\ rpc = 4
    /\ ~bert_ok
    /\ Len(output) = 1
    /\ Len(output[1].retrieval_results["TF-IDF"].case_ids) = 2
    /\ output[1].retrieval_results["TF-IDF"].scores[1] > 0
    /\ output[1].retrieval_results["BERT"].case_ids = <<>>
    /\ output[1].retrieval_results["Hybrid"].case_ids # <<>>

\* the lexical top-2K list: the first 2K cases of the lexical ranking
LexicalTop2K == Take(order["TF-IDF"], 2 * top_k)

\* the lexical similarity of the case at corpus position j, normalized over
\* the similarities of the lexical top-2K list
NormalizedOverTop2K(j) ==
    LET raw == { sim["TF-IDF"][LexicalTop2K[i]] : i \in 1..Len(LexicalTop2K) }
        lowest == CHOOSE x \in raw : \A y \in raw : x <= y
        highest == CHOOSE x \in raw : \A y \in raw : y <= x
    IN IF highest = lowest THEN 0
       ELSE ((sim["TF-IDF"][j] - lowest) * Scale) \div (highest - lowest)

\* C28: when the dense retrieval is empty, the hybrid result holds the case
\* ids of the lexical top-K result in the same order, every hybrid score is
\* half the lexical similarity of its case normalized over the lexical
\* top-2K list, and no hybrid score is above 0.5.
C28_HybridWithoutDense ==
    (rpc = 4 /\ ~bert_ok) =>
        /\ results["Hybrid"].case_ids = results["TF-IDF"].case_ids
        /\ \A i \in 1..Len(results["Hybrid"].case_ids) :
              /\ 2 * results["Hybrid"].scores[i]
                    = NormalizedOverTop2K(CorpusIndex(results["Hybrid"].case_ids[i]))
              /\ 2 * results["Hybrid"].scores[i] <= Scale

\* witness of C28: without the dense result, the two cases of the lexical
\* result have equal similarities and lexical scores 0.0, a third case of
\* the top-2K list has a lower similarity, and both hybrid scores are 0.5
C28_Witness ==
    /\ rpc = 4 /\ ~bert_ok /\ top_k = 2
    /\ Len(LexicalTop2K) > top_k
    /\ results["TF-IDF"].scores = <<0, 0>>
    /\ results["Hybrid"].case_ids = results["TF-IDF"].case_ids
    /\ results["Hybrid"].scores = <<Scale \div 2, Scale \div 2>>

\* 04_predict.py, line 204: the query is skipped for this method's data
\* (both members are lists in what 03_retrieval.py writes)
InvalidRetrievalStructure(method_data) ==
    Len(method_data.case_ids) # Len(method_data.scores)

\* C29: for every query and method of the retrieval output, case_ids and
\* scores have the same length and no case id occurs twice in the list, so
\* the prediction stage skips no query of that output for a length mismatch.
C29_WellFormedOutput ==
    \A q \in 1..Len(output) :
        \A m \in DOMAIN output[q].retrieval_results :
            LET method_data == output[q].retrieval_results[m]
            IN /\ Len(method_data.case_ids) = Len(method_data.scores)
               /\ \A a, b \in 1..Len(method_data.case_ids) :
                     a # b => method_data.case_ids[a] # method_data.case_ids[b]
               /\ ~InvalidRetrievalStructure(method_data)

\* witness of C29: the output is written; each method lists two distinct
\* cases with two scores, and the hybrid list differs from the lexical one
C29_Witness ==
    /\ rpc = 4 /\ bert_ok /\ Len(output) = 1
    /\ \A m \in {"TF-IDF", "BERT", "Hybrid"} :
          /\ Len(output[1].retrieval_results[m].case_ids) = 2
          /\ Len(output[1].retrieval_results[m].scores) = 2
          /\ output[1].retrieval_results[m].case_ids[1] # output[1].retrieval_results[m].case_ids[2]
    /\ output[1].retrieval_results["Hybrid"].case_ids # output[1].retrieval_results["TF-IDF"].case_ids

----------------------------------------------------------------------------
(* 04_predict.py *)

\* lines 18-22
PREDICTION_SCORE_THRESHOLD == 5      \* 0.5, in tenths
TOP_N_PREDICTED_PASALS == 10

\* scores of retrieved_cases.json, in tenths
RetrievedScores == {3, 6, 9}

NA == <<"N", "/", "A">>

\* pasal_pattern, lines 73-76
PredictPasalPattern ==
    Cat(<<LitI(<<"P", "a", "s", "a", "l">>), Plus(Cls(Space)), Plus(Cls(Digit)),
          Opt(Cat(<<Plus(Cls(Space)), LitI(<<"A", "y", "a", "t">>), Star(Cls(Space)),
                    Cls({"("}), Plus(Cls(Digit)), Cls({")"})>>)),
          Opt(Cat(<<Plus(Cls(Space)), LitI(<<"h", "u", "r", "u", "f">>), Plus(Cls(Space)), Cls(Letter)>>))>>)

\* r'Ayat\s*\(\s*(\d+)\s*\)' and r'huruf\s*([a-zA-Z])' as compiled by
\* re.sub(pattern, repl, p, re.IGNORECASE): the fourth positional argument of
\* re.sub is count, so the patterns are case-sensitive and count is 2
AyatPattern ==
    Cat(<<Lit(<<"A", "y", "a", "t">>), Star(Cls(Space)), Cls({"("}), Star(Cls(Space)),
          Grp(1, Plus(Cls(Digit))), Star(Cls(Space)), Cls({")"})>>)
HurufPattern == Cat(<<Lit(<<"h", "u", "r", "u", "f">>), Star(Cls(Space)), Grp(1, Cls(Letter))>>)
AyatRepl == <<"A", "y", "a", "t", " ", "(", "\\1", ")">>
HurufRepl == <<"h", "u", "r", "u", "f", " ", "\\1">>
IgnoreCaseAsCount == 2

\* lines 79-83: the clean-up of one match
PredictCleanPasal(p0) ==
    LET p1 == Strip(ReSub(Plus(Cls(Space)), <<" ">>, p0))
        p2 == ReSubCount(AyatPattern, AyatRepl, p1, IgnoreCaseAsCount)
        p3 == ReSubCount(HurufPattern, HurufRepl, p2, IgnoreCaseAsCount)
    IN StrTitle(p3)

\* extract_pasals, lines 68-84
CleanedPasals(text, pasals) ==
    [i \in 1..Len(pasals) |-> PredictCleanPasal(Group0(text, pasals[i]))]
extract_pasals(text) == Unique(CleanedPasals(text, FindIter(PredictPasalPattern, text, 1)))

\* the loop that counts one vote per neighbour instead of adding its score
RECURSIVE AddPasalScores_Unweighted(_, _, _, _)
AddPasalScores_Unweighted(d, pasals, idx, score) ==
    IF idx > Len(pasals) THEN d
    ELSE AddPasalScores_Unweighted(DictPut(d, pasals[idx], DictGet(d, pasals[idx], 0) + 1),
                                   pasals, idx + 1, score)

\* lines 101-111: pasal_weighted_scores after the loop over the neighbours;
\* a neighbour is <<case, score>>
RECURSIVE AddPasalScores(_, _, _, _)
AddPasalScores(d, pasals, idx, score) ==
    IF idx > Len(pasals) THEN d
    ELSE AddPasalScores(DictPut(d, pasals[idx], DictGet(d, pasals[idx], 0) + score),
                        pasals, idx + 1, score)

RECURSIVE PasalWeightedScores(_, _, _)
PasalWeightedScores(d, cases_with_scores, idx) ==
    IF idx > Len(cases_with_scores) THEN d
    ELSE PasalWeightedScores(
            AddPasalScores(d, extract_pasals(cases_with_scores[idx][1].pasal), 1,
                           cases_with_scores[idx][2]),
            cases_with_scores, idx + 1)

\* lines 122-130: predicted_pasals_final
RECURSIVE KeepAtLeast(_, _)
KeepAtLeast(sorted_pasals, threshold) ==
    IF sorted_pasals = <<>> THEN <<>>
    ELSE (IF Head(sorted_pasals)[2] >= threshold THEN <<Head(sorted_pasals)[1]>> ELSE <<>>)
         \o KeepAtLeast(Tail(sorted_pasals), threshold)

\* the selection that cuts the statutes kept by the threshold to the top N
PredictedPasalsFinal_BothPolicies(sorted_pasals, threshold_policy) ==
    IF threshold_policy
    THEN Take(KeepAtLeast(sorted_pasals, PREDICTION_SCORE_THRESHOLD), TOP_N_PREDICTED_PASALS)
    ELSE LET top == Take(sorted_pasals, TOP_N_PREDICTED_PASALS)
         IN [i \in 1..Len(top) |-> top[i][1]]

PredictedPasalsFinal(sorted_pasals, threshold_policy) ==
    IF threshold_policy
    THEN KeepAtLeast(sorted_pasals, PREDICTION_SCORE_THRESHOLD)
    ELSE LET top == Take(sorted_pasals, TOP_N_PREDICTED_PASALS)
         IN [i \in 1..Len(top) |-> top[i][1]]

\* weighted_majority_vote, lines 86-137: the locals at the return
LocalsAfterLoop(cases_with_scores, threshold_policy, pasal_weighted_scores) ==
    [cases_with_scores |-> cases_with_scores,
     pasal_weighted_scores |-> pasal_weighted_scores,
     predicted_pasals_final |->
        IF pasal_weighted_scores = <<>> THEN <<>>
        ELSE PredictedPasalsFinal(SortedByValueDesc(pasal_weighted_scores), threshold_policy)]
VoteLocals(cases_with_scores, threshold_policy) ==
    LocalsAfterLoop(cases_with_scores, threshold_policy,
                    PasalWeightedScores(<<>>, cases_with_scores, 1))

\* the return without the check of lines 132-134
VoteResult_NoFinalCheck(locals) ==
    IF locals.pasal_weighted_scores = <<>> THEN NA
    ELSE Join(<<";", " ">>, locals.predicted_pasals_final)

\* lines 113-115 and 132-137: the value returned
VoteResult(locals) ==
    IF locals.pasal_weighted_scores = <<>> THEN NA
    ELSE IF locals.predicted_pasals_final = <<>> THEN NA
    ELSE Join(<<";", " ">>, locals.predicted_pasals_final)

weighted_majority_vote(cases_with_scores, threshold_policy) ==
    VoteResult(VoteLocals(cases_with_scores, threshold_policy))

\* the case base cases.json read by main, line 158: the statute fields are
\* the '; '-joined title-cased lists written by extract_metadata
case_data ==
    << [case_id |-> 101, pasal |-> <<"P", "a", "s", "a", "l", " ", "2", " ", "A", "y", "a", "t", " ", "(", "1", ")">>],
       [case_id |-> 102, pasal |-> <<"P", "a", "s", "a", "l", " ", "3">>],
       [case_id |-> 103, pasal |-> <<"P", "a", "s", "a", "l", " ", "2", " ", "A", "y", "a", "t", " ", "(", "1", ")">>],
       [case_id |-> 104, pasal |-> <<>>],
       [case_id |-> 105, pasal |-> <<"P", "a", "s", "a", "l", " ", "3", ";", " ", "P", "a", "s", "a", "l", " ", "5", " ", "H", "u", "r", "u", "f", " ", "A">>],
       [case_id |-> 106, pasal |-> <<"P", "a", "s", "a", "l", " ", "2", " ", "A", "y", "a", "t", "(", "1", ")">>] >>

\* a case id of retrieved_cases.json that is not in the case base
UnknownCaseId == 999

\* line 167: case_dict, as the set of its keys and the lookup
CaseDictKeys == { case_data[i].case_id : i \in 1..Len(case_data) }
CaseDict(cid) == case_data[CHOOSE i \in 1..Len(case_data) : case_data[i].case_id = cid]

\* lines 208-213: cases_for_weighted_vote
RECURSIVE CasesForWeightedVote(_, _, _)
CasesForWeightedVote(top_case_ids, similarity_scores, i) ==
    IF i > Len(top_case_ids) THEN <<>>
    ELSE (IF top_case_ids[i] \in CaseDictKeys
          THEN << <<CaseDict(top_case_ids[i]), similarity_scores[i]>> >>
          ELSE <<>>)
         \o CasesForWeightedVote(top_case_ids, similarity_scores, i + 1)

\* the retrieval lists stage 3 can have written: pairwise distinct case ids,
\* as many scores, scores in non-increasing order
RetrievalLists(n) ==
    { [case_ids |-> ids, scores |-> sc] :
        ids \in { f \in [1..n -> CaseDictKeys \cup {UnknownCaseId}] :
                    \A a, b \in 1..n : a # b => f[a] # f[b] },
        sc \in { g \in [1..n -> RetrievedScores] :
                    \A a \in 1..(n - 1) : g[a] >= g[a + 1] } }

InitPredict ==
    /\ stage = "predict"
    /\ ppc = 1
    /\ use_threshold \in BOOLEAN
    /\ \E n \in 0..MaxRetrieved : retrieved \in RetrievalLists(n)
    /\ vote = NoVote
    /\ prediction = NoPrediction
    /\ IdleRetrieval /\ IdleExtract /\ IdleText

\* main, lines 199-227: one pass of the loop over the query entries
PredictQuery ==
    /\ stage = "predict" /\ ppc = 1
    /\ \E cases_for_weighted_vote \in {CasesForWeightedVote(retrieved.case_ids, retrieved.scores, 1)} :
          IF cases_for_weighted_vote = <<>>
          THEN /\ vote' = NoVote
               /\ prediction' = [predicted_solution |-> NA,
                                 top_retrieved_case_ids_for_method |-> retrieved.case_ids]
          ELSE \E locals \in {VoteLocals(cases_for_weighted_vote, use_threshold)} :
                  /\ vote' = locals
                  /\ prediction' =
                        [predicted_solution |-> VoteResult(locals),
                         top_retrieved_case_ids_for_method |-> retrieved.case_ids]
    /\ ppc' = 2
    /\ UNCHANGED <<stage, use_threshold, retrieved, retrievalVars, extractVars, textVars>>

NextPredict == PredictQuery

SpecPredict == InitPredict /\ [][NextPredict]_vars

----------------------------------------------------------------------------
(* Properties of the prediction stage *)

Range(seq) == { seq[i] : i \in 1..Len(seq) }

\* the statutes held by the statute field of each case of the case base
StatutesOfCase ==
    [cid \in CaseDictKeys |-> Range(extract_pasals(CaseDict(cid).pasal))]

\* the weight the specification gives a statute: the sum of the scores of the
\* neighbours whose stored statute field holds the statute
RECURSIVE ClaimedWeight(_, _)
ClaimedWeight(neighbours, statute) ==
    IF neighbours = <<>> THEN 0
    ELSE (IF statute \in StatutesOfCase[Head(neighbours)[1].case_id]
          THEN Head(neighbours)[2] ELSE 0)
         + ClaimedWeight(Tail(neighbours), statute)

\* the statutes of all the neighbours of the vote
NeighbourStatutes ==
    UNION { StatutesOfCase[vote.cases_with_scores[i][1].case_id] :
              i \in 1..Len(vote.cases_with_scores) }

\* C5: weighted_majority_vote gives every statute of a neighbour the sum of
\* the scores of the neighbours whose statute field holds it, and its output
\* is the '; '-join of statutes in non-increasing order of that weight; the
\* neighbours 'Pasal 2 Ayat (1)', 'Pasal 3', 'Pasal 2 Ayat (1)' with scores
\* 0.9, 0.6, 0.3 give 'Pasal 2 Ayat (1); Pasal 3'.
C5_WeightedVote ==
    (ppc = 2 /\ vote.cases_with_scores # <<>>) =>
        /\ { vote.pasal_weighted_scores[i][1] : i \in 1..Len(vote.pasal_weighted_scores) }
              = NeighbourStatutes
        /\ \A i \in 1..Len(vote.pasal_weighted_scores) :
              vote.pasal_weighted_scores[i][2]
                 = ClaimedWeight(vote.cases_with_scores, vote.pasal_weighted_scores[i][1])
        /\ \A i \in 1..(Len(vote.predicted_pasals_final) - 1) :
              ClaimedWeight(vote.cases_with_scores, vote.predicted_pasals_final[i])
                 >= ClaimedWeight(vote.cases_with_scores, vote.predicted_pasals_final[i + 1])
        /\ prediction.predicted_solution # NA =>
              prediction.predicted_solution = Join(<<";", " ">>, vote.predicted_pasals_final)
        /\ (retrieved = [case_ids |-> <<101, 102, 103>>, scores |-> <<9, 6, 3>>]
            /\ ~use_threshold) =>
              prediction.predicted_solution = <<"P", "a", "s", "a", "l", " ", "2", " ", "A", "y", "a", "t", " ", "(", "1", ")", ";", " ", "P", "a", "s", "a", "l", " ", "3">>

\* witness of C5: the vote over the three neighbours of the example is done
C5_Witness ==
    /\ ppc = 2 /\ ~use_threshold
    /\ retrieved = [case_ids |-> <<101, 102, 103>>, scores |-> <<9, 6, 3>>]
    /\ Len(vote.cases_with_scores) = 3
    /\ vote.pasal_weighted_scores = << <<<<"P", "a", "s", "a", "l", " ", "2", " ", "A", "y", "a", "t", " ", "(", "1", ")">>, 12>>, <<<<"P", "a", "s", "a", "l", " ", "3">>, 6>> >>
    /\ prediction.predicted_solution = <<"P", "a", "s", "a", "l", " ", "2", " ", "A", "y", "a", "t", " ", "(", "1", ")", ";", " ", "P", "a", "s", "a", "l", " ", "3">>

\* the statutes that survive the active selection policy, by the
\* specification: the threshold policy keeps a statute of weight >= the
\* threshold; under the top-N policy some statute survives when there is one
SomeStatuteSurvives ==
    IF use_threshold
    THEN \E st \in NeighbourStatutes :
            ClaimedWeight(vote.cases_with_scores, st) >= PREDICTION_SCORE_THRESHOLD
    ELSE NeighbourStatutes # {}

\* C6: the prediction is the literal 'N/A' exactly when no statute is
\* extracted from any neighbour or none survives the selection policy;
\* otherwise it is a non-empty '; '-joined list of statutes of the neighbours;
\* a query none of whose retrieved ids is in the case base gets 'N/A'.
C6_NotAvailable ==
    ppc = 2 =>
        /\ prediction.predicted_solution = NA
              <=> (NeighbourStatutes = {} \/ ~SomeStatuteSurvives)
        /\ prediction.predicted_solution # NA =>
              /\ prediction.predicted_solution # <<>>
              /\ vote.predicted_pasals_final # <<>>
              /\ Range(vote.predicted_pasals_final) \subseteq NeighbourStatutes
              /\ prediction.predicted_solution = Join(<<";", " ">>, vote.predicted_pasals_final)
        /\ (\A i \in 1..Len(retrieved.case_ids) : retrieved.case_ids[i] \notin CaseDictKeys)
              => prediction.predicted_solution = NA

\* witness of C6: under the threshold policy the only neighbour has a statute
\* whose weight 0.3 is below the threshold, and the prediction is 'N/A'
C6_Witness ==
    /\ ppc = 2 /\ use_threshold
    /\ retrieved = [case_ids |-> <<102>>, scores |-> <<3>>]
    /\ vote.pasal_weighted_scores = << <<<<"P", "a", "s", "a", "l", " ", "3">>, 3>> >>
    /\ vote.predicted_pasals_final = <<>>
    /\ prediction.predicted_solution = NA

----------------------------------------------------------------------------
(* 02_case_representation.py: process_all_cases *)

\* the identifiers a record can get at lines 520 and 533-534: the file's stem
\* or the sanitized case number
CaseIdPool == {"123_PID_2021", "45_PID_2020", "putusan_a"}

\* the outcome of lines 521-547 for one file: an empty file is skipped, an
\* exception is counted, otherwise a record is appended
FileOutcomes == {"empty", "raises", "record"}

InitExtract ==
    /\ stage = "extract"
    /\ epc = "files"
    /\ file_idx = 1
    /\ extracted = <<>>
    /\ success_count = 0
    /\ error_count = 0
    /\ dup_log = <<>>
    /\ saved = NotWritten
    /\ IdleRetrieval /\ IdlePredict /\ IdleText

\* lines 519-552: one pass of the loop over txt_files; the name of file i is i
ProcessFile ==
    /\ stage = "extract" /\ epc = "files" /\ file_idx <= MaxFiles
    /\ \E outcome \in FileOutcomes :
          CASE outcome = "empty" -> UNCHANGED <<extracted, success_count, error_count>>
            [] outcome = "raises" ->
                 /\ error_count' = error_count + 1
                 /\ UNCHANGED <<extracted, success_count>>
            [] outcome = "record" ->
                 \E current_case_id \in CaseIdPool :
                    /\ extracted' = Append(extracted, [case_id |-> current_case_id,
                                                        file_name |-> file_idx])
                    /\ success_count' = success_count + 1
                    /\ UNCHANGED error_count
    /\ file_idx' = file_idx + 1
    /\ UNCHANGED <<stage, epc, dup_log, saved, retrievalVars, predictVars, textVars>>

\* the duplicate check that lets the later record replace the earlier one
RECURSIVE DedupLoop_KeepLast(_, _, _, _)
DedupLoop_KeepLast(res, i, cleaned_results, log) ==
    IF i > Len(res) THEN [cleaned_results |-> cleaned_results, log |-> log]
    ELSE IF \E j \in 1..Len(cleaned_results) : cleaned_results[j].case_id = res[i].case_id
    THEN DedupLoop_KeepLast(res, i + 1,
            [j \in 1..Len(cleaned_results) |->
                IF cleaned_results[j].case_id = res[i].case_id THEN res[i]
                ELSE cleaned_results[j]],
            Append(log, [event |-> "duplicate", case_id |-> res[i].case_id,
                         file_name |-> res[i].file_name]))
    ELSE DedupLoop_KeepLast(res, i + 1, Append(cleaned_results, res[i]), log)

\* lines 555-562: the loop over results; unique_case_ids is the set of the
\* identifiers of cleaned_results
RECURSIVE DedupLoop(_, _, _, _)
DedupLoop(res, i, cleaned_results, log) ==
    IF i > Len(res) THEN [cleaned_results |-> cleaned_results, log |-> log]
    ELSE IF res[i].case_id \in { cleaned_results[j].case_id : j \in 1..Len(cleaned_results) }
    THEN DedupLoop(res, i + 1, cleaned_results,
                   Append(log, [event |-> "duplicate", case_id |-> res[i].case_id,
                                file_name |-> res[i].file_name]))
    ELSE DedupLoop(res, i + 1, Append(cleaned_results, res[i]), log)

\* lines 554-572: after the loop over the files, the duplicate check and the
\* write of OUTPUT_FILE; nothing is written when results is empty (line 598)
DedupAndSave ==
    /\ stage = "extract" /\ epc = "files" /\ file_idx > MaxFiles
    /\ IF extracted # <<>>
       THEN LET d == DedupLoop(extracted, 1, <<>>, <<>>)
            IN /\ dup_log' =
                     IF Len(d.cleaned_results) < Len(extracted)
                     THEN Append(d.log, [event |-> "removed",
                                         count |-> Len(extracted) - Len(d.cleaned_results)])
                     ELSE d.log
               /\ saved' = [written |-> TRUE, cases |-> d.cleaned_results]
       ELSE UNCHANGED <<dup_log, saved>>
    /\ epc' = "done"
    /\ UNCHANGED <<stage, file_idx, extracted, success_count, error_count,
                   retrievalVars, predictVars, textVars>>

NextExtract == ProcessFile \/ DedupAndSave

SpecExtract == InitExtract /\ [][NextExtract]_vars

----------------------------------------------------------------------------
(* Properties of process_all_cases *)

\* the duplicate warnings of line 559
DuplicateEvents == { i \in 1..Len(dup_log) : dup_log[i].event = "duplicate" }

\* index in extracted of the first record that carries the identifier
FirstCarrier(cid) ==
    CHOOSE i \in 1..Len(extracted) :
        /\ extracted[i].case_id = cid
        /\ \A j \in 1..(i - 1) : extracted[j].case_id # cid

\* C7: after the duplicate check the saved list has pairwise distinct
\* case_id values, holds for each identifier exactly the first record that
\* carried it, keeps the relative order of the kept records, and one
\* duplicate warning is logged per dropped record.
C7_Deduplication ==
    (epc = "done" /\ saved.written) =>
        /\ \A a, b \in 1..Len(saved.cases) :
              a # b => saved.cases[a].case_id # saved.cases[b].case_id
        /\ { saved.cases[a].case_id : a \in 1..Len(saved.cases) }
              = { extracted[i].case_id : i \in 1..Len(extracted) }
        /\ \A a \in 1..Len(saved.cases) :
              saved.cases[a] = extracted[FirstCarrier(saved.cases[a].case_id)]
        /\ \A a, b \in 1..Len(saved.cases) :
              a < b => FirstCarrier(saved.cases[a].case_id) < FirstCarrier(saved.cases[b].case_id)
        /\ Cardinality(DuplicateEvents) = Len(extracted) - Len(saved.cases)
        /\ \A i \in DuplicateEvents :
              \E k \in 1..Len(extracted) :
                  /\ extracted[k].case_id = dup_log[i].case_id
                  /\ extracted[k].file_name = dup_log[i].file_name
                  /\ k # FirstCarrier(extracted[k].case_id)
        /\ (Len(extracted) = 2 /\ extracted[1].case_id = "123_PID_2021"
            /\ extracted[2].case_id = "123_PID_2021") =>
              /\ saved.cases = <<extracted[1]>>
              /\ Cardinality(DuplicateEvents) = 1

\* witness of C7: two records carry the identifier '123_PID_2021'; the first
\* is kept, the second is dropped with one duplicate warning
C7_Witness ==
    /\ epc = "done" /\ saved.written
    /\ Len(extracted) = 2
    /\ extracted[1].case_id = "123_PID_2021" /\ extracted[2].case_id = "123_PID_2021"
    /\ saved.cases = <<extracted[1]>>
    /\ Cardinality(DuplicateEvents) = 1

----------------------------------------------------------------------------
(* The two text normalizers *)

\* text.split(sep) for a one-character separator
RECURSIVE Split(_, _)
Split(s, sep) ==
    IF \E i \in 1..Len(s) : s[i] = sep
    THEN LET i == CHOOSE k \in 1..Len(s) : s[k] = sep /\ \A j \in 1..(k - 1) : s[j] # sep
         IN <<SubSeq(s, 1, i - 1)>> \o Split(SubSeq(s, i + 1, Len(s)), sep)
    ELSE <<s>>

\* text.replace('\x00', ' ').replace('\xa0', ' ')
ReplaceNulNbsp(text) == [i \in 1..Len(text) |-> IF text[i] \in {"NUL", "NBSP"} THEN " " ELSE text[i]]

\* the first two re.sub of both normalizers
CollapseNewlines(text) == ReSub(Plus(Cls({"\r", "\n"})), <<"\n">>, text)
CollapseBlanks(text) == ReSub(Plus(Cls({" ", "\t"})), <<" ">>, text)

\* clean_text that replaces NUL and NBSP after the whitespace normalization
clean_text_LateNulReplace(text) ==
    IF text = <<>> THEN <<>>
    ELSE LET t2 == CollapseNewlines(text)
             t3 == CollapseBlanks(t2)
             t4 == ReSub(Cat(<<Star(Cls(Space)), Cls({"("}), Star(Cls(Space))>>), <<"(">>, t3)
             t5 == ReSub(Cat(<<Star(Cls(Space)), Cls({")"}), Star(Cls(Space))>>), <<")">>, t4)
         IN ReplaceNulNbsp(Strip(t5))

\* ImprovedSmartExtractor.clean_text, 02_case_representation.py lines 140-150
clean_text(text) ==
    IF text = <<>> THEN <<>>
    ELSE LET t1 == ReplaceNulNbsp(text)
             t2 == CollapseNewlines(t1)
             t3 == CollapseBlanks(t2)
             t4 == ReSub(Cat(<<Star(Cls(Space)), Cls({"("}), Star(Cls(Space))>>), <<"(">>, t3)
             t5 == ReSub(Cat(<<Star(Cls(Space)), Cls({")"}), Star(Cls(Space))>>), <<")">>, t4)
         IN Strip(t5)

\* 01_pdf_to_text.py lines 151-152: the page number patterns
PageNumberPattern ==
    Cat(<<Bos, Star(Cls(Space)), Opt(Cls({"-", "_"})), Star(Cls(Space)), Plus(Cls(Digit)),
          Star(Cls(Space)), Opt(Cls({"-", "_"})), Star(Cls(Space)), Eos>>)
PageWordPattern ==
    Cat(<<Bos, Star(Cls(Space)), LitI(<<"p", "a", "g", "e">>), Plus(Cls(Space)), Plus(Cls(Digit)),
          Star(Cls(Space)), Eos>>)
\* line 169
RomanNumeralPattern ==
    Cat(<<Bos, Plus(Cls({"i", "v", "x", "l", "c", "I", "V", "X", "L", "C"})), Cls({"."}), Eos>>)

\* lines 141-172: TRUE when the stripped line is kept
KeepLine(line) ==
    /\ line # <<>>
    /\ ~FullMatch(PageNumberPattern, line)
    /\ ~FullMatch(PageWordPattern, line)
    /\ ~(/\ Len(line) > 5
         /\ \A i \in 1..Len(line) : line[i] \notin Letter \cup Digit /\ line[i] \notin Space
         /\ Cardinality({ line[i] : i \in 1..Len(line) } \ Space) <= 2)
    /\ ~(Len(line) <= 3 /\ ~Search(Cls(Letter \cup Digit), line, 1).ok)
    /\ ~(Len(line) <= 5 /\ FullMatch(RomanNumeralPattern, line))

RECURSIVE CleanedLines(_)
CleanedLines(lines) ==
    IF lines = <<>> THEN <<>>
    ELSE LET line == Strip(Head(lines))
         IN (IF KeepLine(line) THEN <<line>> ELSE <<>>) \o CleanedLines(Tail(lines))

\* clean_extracted_text, 01_pdf_to_text.py lines 114-175
clean_extracted_text(text) ==
    IF text = <<>> THEN <<>>
    ELSE LET t == Strip(CollapseBlanks(CollapseNewlines(ReplaceNulNbsp(text))))
         IN IF t = <<>> THEN <<>>
            ELSE Strip(Join(<<"\n">>, CleanedLines(Split(t, "\n"))))

Normalizers == {"clean_text", "clean_extracted_text"}

ApplyNormalizer(name, text) ==
    IF name = "clean_text" THEN clean_text(text) ELSE clean_extracted_text(text)


\* the texts made of at most n fragments
TextsOf(frags, n) ==
    UNION { { Concat(f) : f \in [1..k -> frags] } : k \in 0..n }

\* fragments of the texts given to clean_text
CleanTextFragments ==
    { <<"a">>, <<" ">>, <<"\t">>, <<"\n">>, <<"\r">>, <<"NUL">>, <<"NBSP">>, <<"(">>, <<")">>,
      <<"VT">> }

\* fragments of the page texts given to clean_extracted_text
PageTextFragments ==
    { <<"a">>, <<" ">>, <<"\t">>, <<"\n">>, <<"\r", "\n">>, <<"NUL">>, <<"VT">>, <<"-">>, <<"1">>,
      <<"-", " ", "2", " ", "-">>, <<"P", "a", "g", "e", " ", "4">>, <<"-", "-", "-", "-", "-", "-">>, <<"=", "-", "=", "-", "=", "-">>, <<"i", "i", ".">>, <<".", " ", ".">> }

FragmentsOf(name) == IF name = "clean_text" THEN CleanTextFragments ELSE PageTextFragments

InitNormalize ==
    /\ stage = "normalize"
    /\ fn \in Normalizers
    /\ doc \in TextsOf(FragmentsOf(fn), MaxFrags)
    /\ tpc = "input"
    /\ now_year = 0
    /\ cleaned = <<>>
    /\ out = <<>>
    /\ IdleRetrieval /\ IdlePredict /\ IdleExtract

\* normalize(x)
Normalize ==
    /\ stage = "normalize" /\ tpc = "input"
    /\ cleaned' = ApplyNormalizer(fn, doc)
    /\ tpc' = "cleaned"
    /\ UNCHANGED <<stage, now_year, fn, doc, out, retrievalVars, predictVars, extractVars>>

\* normalize(normalize(x))
NormalizeAgain ==
    /\ stage = "normalize" /\ tpc = "cleaned"
    /\ out' = ApplyNormalizer(fn, cleaned)
    /\ tpc' = "returned"
    /\ UNCHANGED <<stage, now_year, fn, doc, cleaned, retrievalVars, predictVars, extractVars>>

NextNormalize == Normalize \/ NormalizeAgain

SpecNormalize == InitNormalize /\ [][NextNormalize]_vars

\* C8: both normalizers are idempotent, clean_text(clean_text(x)) =
\* clean_text(x) and clean_extracted_text(clean_extracted_text(x)) =
\* clean_extracted_text(x), and both return the empty string on empty input.
C8_Idempotent ==
    /\ tpc = "returned" => out = cleaned
    /\ (doc = <<>> /\ tpc # "input") => cleaned = <<>>

\* witness of C8: a text that the normalizer changed, to a non-empty text,
\* has been normalized twice
C8_Witness ==
    /\ tpc = "returned"
    /\ cleaned # doc /\ cleaned # <<>>
    /\ Len(cleaned) + 2 <= Len(doc)
    /\ out = cleaned

----------------------------------------------------------------------------
(* 02_case_representation.py: extract_pasal *)

\* . under re.DOTALL
AnyChar == { CodePointOrder[i] : i \in 1..Len(CodePointOrder) }

\* Pasal\s+\d+(?:\s+Ayat\s*\(\d+\))?(?:\s+huruf\s+[a-zA-Z])? under re.IGNORECASE
PasalUnit ==
    Cat(<<LitI(<<"P", "a", "s", "a", "l">>), Plus(Cls(Space)), Plus(Cls(Digit)),
          Opt(Cat(<<Plus(Cls(Space)), LitI(<<"A", "y", "a", "t">>), Star(Cls(Space)),
                    Cls({"("}), Plus(Cls(Digit)), Cls({")"})>>)),
          Opt(Cat(<<Plus(Cls(Space)), LitI(<<"h", "u", "r", "u", "f">>), Plus(Cls(Space)), Cls(Letter)>>))>>)

\* the captured group of the three patterns: a citation followed by any
\* number of citations, each after optional punctuation and connector
PasalChain ==
    Cat(<<PasalUnit,
          Star(Cat(<<Star(Cls(Space \cup {".", ",", ";"})),
                     Opt(Alt(<<Cat(<<LitI(<<"j", "o">>), Opt(Cls({"."}))>>), LitI(<<"j", "u", "n", "c", "t", "o">>),
                               LitI(<<"d", "a", "n">>), LitI(<<"a", "t", "a", "u">>), LitI(<<"s", "e", "r", "t", "a">>)>>)),
                     Star(Cls(Space)), PasalUnit>>))>>)

\* (?:\s+Undang-Undang\s+Nomor\s+\d+)?
LawSuffix ==
    Opt(Cat(<<Plus(Cls(Space)), LitI(<<"U", "n", "d", "a", "n", "g", "-", "U", "n", "d", "a", "n", "g">>), Plus(Cls(Space)), LitI(<<"N", "o", "m", "o", "r">>),
              Plus(Cls(Space)), Plus(Cls(Digit))>>))

\* PASAL_PATTERNS, lines 66-83
PASAL_PATTERNS ==
    << Cat(<<Alt(<<LitI(<<"t", "e", "r", "b", "u", "k", "t", "i">>), LitI(<<"b", "e", "r", "s", "a", "l", "a", "h">>),
                   Cat(<<LitI(<<"m", "e", "l", "a", "k", "u", "k", "a", "n">>), Plus(Cls(Space)), LitI(<<"t", "i", "n", "d", "a", "k">>),
                         Plus(Cls(Space)), LitI(<<"p", "i", "d", "a", "n", "a">>)>>),
                   LitI(<<"d", "i", "h", "u", "k", "u", "m">>)>>),
             Plus(Cls(Space)), LazyRep(Cls(AnyChar), 0, InfRep),
             Alt(<<Cat(<<LitI(<<"s", "e", "b", "a", "g", "a", "i", "m", "a", "n", "a">>), Plus(Cls(Space)), LitI(<<"d", "i", "a", "t", "u", "r">>),
                         Plus(Cls(Space)), LitI(<<"d", "a", "l", "a", "m">>)>>),
                   LitI(<<"m", "e", "l", "a", "n", "g", "g", "a", "r">>), LitI(<<"b", "e", "r", "d", "a", "s", "a", "r", "k", "a", "n">>)>>),
             Plus(Cls(Space)), Grp(1, PasalChain), LawSuffix>>),
       Cat(<<Alt(<<LitI(<<"m", "e", "n", "y", "a", "t", "a", "k", "a", "n">>), LitI(<<"m", "e", "m", "u", "t", "u", "s", "k", "a", "n">>), LitI(<<"m", "e", "n", "i", "m", "b", "a", "n", "g">>),
                   LitI(<<"m", "e", "n", "g", "a", "d", "i", "l", "i">>), LitI(<<"b", "e", "r", "d", "a", "s", "a", "r", "k", "a", "n">>)>>),
             Plus(Cls(Space)), LazyRep(Cls(AnyChar), 0, InfRep),
             Grp(1, PasalChain), LawSuffix>>),
       Grp(1, PasalChain) >>

\* re.split(pattern, s) for a pattern without groups that matches no empty text
SplitPieces(s, pos, ms) ==
    [k \in 1..(Len(ms) + 1) |->
        SubSeq(s, IF k = 1 THEN pos ELSE ms[k - 1].end,
                  IF k > Len(ms) THEN Len(s) ELSE ms[k].start - 1)]
ReSplit(r, s, pos) ==
    IF s = <<>> THEN <<s>> ELSE SplitPieces(s, pos, FindIter(r, s, pos))

\* r'\s+(?:jo|dan)\s+' with flags=re.IGNORECASE, line 246
ConnectorPattern ==
    Cat(<<Plus(Cls(Space)), Alt(<<LitI(<<"j", "o">>), LitI(<<"d", "a", "n">>)>>), Plus(Cls(Space))>>)

\* r'Pasal\s+\d+' under re.IGNORECASE, line 250
PasalNumberPattern == Cat(<<LitI(<<"P", "a", "s", "a", "l">>), Plus(Cls(Space)), Plus(Cls(Digit))>>)

MinCaseNumberLen == 10  \* 02_case_representation.py, line 533
MinPasalLen == 5
MaxPasalLen == 150

\* lines 239-246: the sub_pasals of one match
SubPasals(text, match) ==
    LET g == Strip(GroupN(text, match, 1))
        p1 == ReSub(Plus(Cls(Space)), <<" ">>, g)
        p2 == ReSubCount(AyatPattern, AyatRepl, p1, IgnoreCaseAsCount)
        p3 == ReSubCount(HurufPattern, HurufRepl, p2, IgnoreCaseAsCount)
        p4 == Replace(Replace(Replace(Replace(p3, <<"j", "o", ".">>, <<"j", "o">>), <<"j", "u", "n", "c", "t", "o">>, <<"j", "o">>),
                              <<"s", "e", "r", "t", "a">>, <<"d", "a", "n">>), <<"a", "t", "a", "u">>, <<"d", "a", "n">>)
    IN ReSplit(ConnectorPattern, p4, 1)

\* lines 248-252: what one match adds to pasal_found
PasalsOfMatch(text, match) ==
    LET sub_pasals == SubPasals(text, match)
    IN { StrTitle(Strip(sub_pasals[i])) :
            i \in { j \in 1..Len(sub_pasals) :
                      LET p == Strip(sub_pasals[j])
                      IN /\ Search(PasalNumberPattern, p, 1).ok
                         /\ MinPasalLen <= Len(p) /\ Len(p) <= MaxPasalLen } }

\* lines 234-252: pasal_found after the loops
pasal_found(text) ==
    UNION { LET matches == FindIter(PASAL_PATTERNS[n], text, 1)
            IN UNION { PasalsOfMatch(text, matches[i]) : i \in 1..Len(matches) }
            : n \in 1..Len(PASAL_PATTERNS) }

\* list(pasal_found): a set is listed in an order the language leaves open
Listings(set) ==
    { l \in [1..Cardinality(set) -> set] : \A i, j \in 1..Cardinality(set) : l[i] = l[j] => i = j }

\* sorted(list): insertion into an ascending list
RECURSIVE Sorted(_)
Sorted(list) ==
    IF list = <<>> THEN <<>>
    ELSE LET front == Sorted(SubSeq(list, 1, Len(list) - 1))
             x == list[Len(list)]
             k == Cardinality({ i \in 1..Len(front) : ~StrLess(x, front[i]) })
         IN SubSeq(front, 1, k) \o <<x>> \o SubSeq(front, k + 1, Len(front))

\* extract_pasal that returns list(pasal_found) as it is
extract_pasal_Unsorted(listing) == listing

\* line 254: the value extract_pasal returns for a listing of pasal_found
extract_pasal(listing) == Sorted(listing)

\* fragments of the texts given to extract_pasal
CitationFragments ==
    { <<"P", "a", "s", "a", "l", " ", "5">>, <<"P", "a", "s", "a", "l", " ", "3">>, <<"p", "a", "s", "a", "l", " ", "1", "0", " ", "a", "y", "a", "t", " ", "(", "1", ")">>, <<"P", "A", "S", "A", "L", " ", "3", " ", "h", "u", "r", "u", "f", " ", "a">>, <<" ", "j", "o", " ">>, <<" ", "j", "o", ".", " ">>,
      <<" ", "J", "U", "N", "C", "T", "O", " ">>,
      <<",", " ">>, <<"t", "e", "r", "b", "u", "k", "t", "i", " ", "m", "e", "l", "a", "n", "g", "g", "a", "r", " ">>, <<"b", "e", "r", "d", "a", "s", "a", "r", "k", "a", "n", " ">> }

InitPasal ==
    /\ stage = "pasal"
    /\ fn = "extract_pasal"
    /\ doc \in TextsOf(CitationFragments, MaxCitations)
    /\ tpc = "input"
    /\ now_year = 0
    /\ cleaned = <<>>
    /\ out = <<>>
    /\ IdleRetrieval /\ IdlePredict /\ IdleExtract

\* extract_metadata, line 476: text = self.clean_text(text)
CleanMetadataText ==
    /\ stage \in {"pasal", "tanggal"} /\ tpc = "input"
    /\ cleaned' = clean_text(doc)
    /\ tpc' = "cleaned"
    /\ UNCHANGED <<stage, now_year, fn, doc, out, retrievalVars, predictVars, extractVars>>

\* extract_pasal(text), on the text as read or as cleaned by extract_metadata
ExtractPasal ==
    /\ stage = "pasal" /\ tpc # "returned"
    /\ \E listing \in Listings(pasal_found(IF tpc = "input" THEN doc ELSE cleaned)) :
           out' = extract_pasal(listing)
    /\ tpc' = "returned"
    /\ UNCHANGED <<stage, now_year, fn, doc, cleaned, retrievalVars, predictVars, extractVars>>

NextPasal == CleanMetadataText \/ ExtractPasal

SpecPasal == InitPasal /\ [][NextPasal]_vars

ExamplePasalText == <<"P", "a", "s", "a", "l", " ", "5", " ", "j", "o", " ", "P", "a", "s", "a", "l", " ", "3">>

\* C9: the result of extract_pasal has no repeated element and is in
\* ascending string order whatever the order of the citations in the text,
\* and for the text 'Pasal 5 jo Pasal 3' it is ['Pasal 3', 'Pasal 5'].
C9_SortedUnique ==
    tpc = "returned" =>
        /\ \A i, j \in 1..Len(out) : i < j => StrLess(out[i], out[j])
        /\ doc = ExamplePasalText => out = <<<<"P", "a", "s", "a", "l", " ", "3">>, <<"P", "a", "s", "a", "l", " ", "5">>>>

\* witness of C9: the citations were found in the text in descending order
C9_Witness ==
    /\ tpc = "returned"
    /\ doc = ExamplePasalText
    /\ out = <<<<"P", "a", "s", "a", "l", " ", "3">>, <<"P", "a", "s", "a", "l", " ", "5">>>>

\* a conjunction word between whitespace, in any case
ConjunctionWord ==
    Cat(<<Cls(Space),
          Alt(<<Cat(<<LitI(<<"j", "o">>), Opt(Cls({"."}))>>), LitI(<<"j", "u", "n", "c", "t", "o">>),
                LitI(<<"d", "a", "n">>), LitI(<<"a", "t", "a", "u">>), LitI(<<"s", "e", "r", "t", "a">>)>>),
          Cls(Space)>>)

\* C23: every element extract_pasal returns is a single citation: it has
\* between 5 and 150 characters, contains 'Pasal' followed by a number
\* exactly once, and contains no conjunction word (jo, jo., juncto, dan,
\* atau, serta, in any case).
C23_SingleCitations ==
    (stage = "pasal" /\ tpc = "returned") =>
        \A i \in 1..Len(out) :
            /\ MinPasalLen <= Len(out[i]) /\ Len(out[i]) <= MaxPasalLen
            /\ Len(FindIter(PasalNumberPattern, out[i], 1)) = 1
            /\ ~Search(ConjunctionWord, out[i], 1).ok

----------------------------------------------------------------------------
(* 02_case_representation.py: extract_tanggal *)

\* int(s) of a text of decimal digits
RECURSIVE ToInt(_)
ToInt(s) ==
    IF s = <<>> THEN 0
    ELSE 10 * ToInt(SubSeq(s, 1, Len(s) - 1))
         + (CHOOSE d \in 0..9 : <<"0", "1", "2", "3", "4", "5", "6", "7", "8", "9">>[d + 1] = s[Len(s)])

\* str(n) for n >= 0
RECURSIVE ToStr(_)
ToStr(n) ==
    (IF n >= 10 THEN ToStr(n \div 10) ELSE <<>>)
    \o << <<"0", "1", "2", "3", "4", "5", "6", "7", "8", "9">>[(n % 10) + 1] >>

\* f"{n:02d}" for n >= 0
TwoDigits(n) == IF n < 10 THEN <<"0">> \o ToStr(n) ELSE ToStr(n)

\* str.isdigit()
IsDigit(s) == s # <<>> /\ \A i \in 1..Len(s) : s[i] \in Digit

MonthNames ==
    << <<"J", "a", "n", "u", "a", "r", "i">>, <<"F", "e", "b", "r", "u", "a", "r", "i">>, <<"M", "a", "r", "e", "t">>, <<"A", "p", "r", "i", "l">>, <<"M", "e", "i">>, <<"J", "u", "n", "i">>, <<"J", "u", "l", "i">>,
       <<"A", "g", "u", "s", "t", "u", "s">>, <<"S", "e", "p", "t", "e", "m", "b", "e", "r">>, <<"O", "k", "t", "o", "b", "e", "r">>, <<"N", "o", "v", "e", "m", "b", "e", "r">>, <<"D", "e", "s", "e", "m", "b", "e", "r">> >>

\* BULAN_MAP, lines 134-138: the keys in the order of their values '01'..'12'
BULAN_MAP == [i \in 1..12 |-> StrLower(MonthNames[i])]

DateSeparator == Cls({"/", "-"})

\* DATE_PATTERNS, lines 38-44
DATE_PATTERNS ==
    << Cat(<<Grp(1, Rep(Cls(Digit), 1, 2)), Plus(Cls(Space)),
             Grp(2, Alt([i \in 1..12 |-> LitI(MonthNames[i])])), Plus(Cls(Space)),
             Grp(3, Rep(Cls(Digit), 4, 4))>>),
       Cat(<<Grp(1, Rep(Cls(Digit), 1, 2)), DateSeparator, Grp(2, Rep(Cls(Digit), 1, 2)),
             DateSeparator, Grp(3, Rep(Cls(Digit), 4, 4))>>),
       Cat(<<Grp(1, Rep(Cls(Digit), 4, 4)), DateSeparator, Grp(2, Rep(Cls(Digit), 1, 2)),
             DateSeparator, Grp(3, Rep(Cls(Digit), 1, 2))>>),
       Cat(<<LitI(<<"t", "a", "n", "g", "g", "a", "l">>), Plus(Cls(Space)), Grp(1, Rep(Cls(Digit), 1, 2)),
             Plus(Cls(Space)), Grp(2, Plus(Cls(WordChar))), Plus(Cls(Space)),
             Grp(3, Rep(Cls(Digit), 4, 4))>>),
       Cat(<<LitI(<<"p", "a", "d", "a">>), Plus(Cls(Space)), LitI(<<"h", "a", "r", "i">>), Plus(Cls(Space)),
             Plus(Cls(WordChar)), Plus(Cls(Space)), LitI(<<"t", "a", "n", "g", "g", "a", "l">>), Plus(Cls(Space)),
             Grp(1, Rep(Cls(Digit), 1, 2)), Plus(Cls(Space)), Grp(2, Plus(Cls(WordChar))),
             Plus(Cls(Space)), Grp(3, Rep(Cls(Digit), 4, 4))>>) >>

SEARCH_AREA_LIMIT == 8000
CONTEXT_WINDOW == 150
MIN_YEAR == 1990
YEAR_SLACK == 5
MAX_DAY == 31

\* line 181
IdentityKeywords ==
    { <<"l", "a", "h", "i", "r">>, <<"u", "s", "i", "a">>, <<"u", "m", "u", "r">>, <<"k", "t", "p">>, <<"i", "d", "e", "n", "t", "i", "t", "a", "s">>, <<"a", "k", "t", "a">>, <<"i", "j", "a", "z", "a", "h">> }

\* lines 177-179: the lowered text around a match
ContextOf(search_area, match) ==
    LET start_pos == IF match.start - 1 - CONTEXT_WINDOW > 0
                     THEN match.start - 1 - CONTEXT_WINDOW ELSE 0
        end_pos == IF match.end - 1 + CONTEXT_WINDOW < Len(search_area)
                   THEN match.end - 1 + CONTEXT_WINDOW ELSE Len(search_area)
    IN StrLower(SubSeq(search_area, start_pos + 1, end_pos))

\* line 181
InIdentityContext(search_area, match) ==
    \E keyword \in IdentityKeywords : Contains(ContextOf(search_area, match), keyword)

\* lines 192-197: month_str, or the empty text when the match is skipped
MonthStr(month) ==
    IF \E i \in 1..12 : BULAN_MAP[i] = StrLower(month)
    THEN TwoDigits(CHOOSE i \in 1..12 : BULAN_MAP[i] = StrLower(month))
    ELSE IF IsDigit(month) /\ 1 <= ToInt(month) /\ ToInt(month) <= 12
    THEN TwoDigits(ToInt(month))
    ELSE <<>>

\* the condition of line 204 without the test of the day
DateInRange_NoDayCheck(day_num, month_num, year_num, year) ==
    /\ 1 <= month_num /\ month_num <= 12
    /\ MIN_YEAR <= year_num /\ year_num <= year + YEAR_SLACK

\* line 204
DateInRange(day_num, month_num, year_num, year) ==
    /\ 1 <= day_num /\ day_num <= MAX_DAY
    /\ 1 <= month_num /\ month_num <= 12
    /\ MIN_YEAR <= year_num /\ year_num <= year + YEAR_SLACK

\* lines 177-205 for one match: the date returned, or the empty text when
\* the loop goes on to the next match
DateOfMatch(search_area, match, year) ==
    IF InIdentityContext(search_area, match) THEN <<>>
    ELSE LET day == GroupN(search_area, match, 1)
             month == GroupN(search_area, match, 2)
             year_text == GroupN(search_area, match, 3)
             month_str == MonthStr(month)
         IN IF month_str = <<>> THEN <<>>
            ELSE IF DateInRange(ToInt(day), ToInt(month_str), ToInt(year_text), year)
            THEN ToStr(ToInt(year_text)) \o <<"-">> \o month_str \o <<"-">> \o TwoDigits(ToInt(day))
            ELSE <<>>

\* lines 174-175: the matches in the order the loops visit them
DateMatches(search_area) ==
    Concat([n \in 1..Len(DATE_PATTERNS) |-> FindIter(DATE_PATTERNS[n], search_area, 1)])

\* extract_tanggal, lines 170-208
extract_tanggal(text, year) ==
    LET search_area == SubSeq(text, 1, IF Len(text) < SEARCH_AREA_LIMIT THEN Len(text)
                                       ELSE SEARCH_AREA_LIMIT)
        matches == DateMatches(search_area)
        dates == [i \in 1..Len(matches) |-> DateOfMatch(search_area, matches[i], year)]
    IN IF \E i \in 1..Len(dates) : dates[i] # <<>>
       THEN dates[CHOOSE i \in 1..Len(dates) :
                     dates[i] # <<>> /\ \A j \in 1..(i - 1) : dates[j] = <<>>]
       ELSE <<>>

\* text between a keyword and a date: 'umur ' before it starts one character
\* outside the context of the date that follows it, ' KTP' after it ends
\* inside the context of the date that precedes it
Filler == [i \in 1..(CONTEXT_WINDOW - 4) |-> "x"]

\* fragments of the texts given to extract_tanggal
DateFragments ==
    { <<"1", "5", " ", "J", "a", "n", "u", "a", "r", "i", " ", "2", "0", "2", "1">>, <<"3", "2", " ", "J", "a", "n", "u", "a", "r", "i", " ", "2", "0", "2", "1">>, <<"t", "a", "n", "g", "g", "a", "l", " ">>, <<"u", "m", "u", "r", " ">>, <<" ", "K", "T", "P">>, Filler,
      <<"5", "/", "3", "/", "2", "0", "3", "2", " ">>, <<"1", " ", "m", "e", "i", " ", "1", "9", "8", "9", " ">> }

CurrentYears == {2026, 2027}

InitTanggal ==
    /\ stage = "tanggal"
    /\ fn = "extract_tanggal"
    /\ doc \in TextsOf(DateFragments, MaxDateFrags) \ {<<>>}
    /\ now_year \in CurrentYears
    /\ tpc = "input"
    /\ cleaned = <<>>
    /\ out = <<>>
    /\ IdleRetrieval /\ IdlePredict /\ IdleExtract

\* extract_metadata, line 480: self.extract_tanggal(text), on the cleaned text
ExtractTanggal ==
    /\ stage = "tanggal" /\ tpc = "cleaned"
    /\ out' = extract_tanggal(cleaned, now_year)
    /\ tpc' = "returned"
    /\ UNCHANGED <<stage, now_year, fn, doc, cleaned, retrievalVars, predictVars, extractVars>>

NextTanggal == CleanMetadataText \/ ExtractTanggal

SpecTanggal == InitTanggal /\ [][NextTanggal]_vars

\* the month number of the second group of a match, 0 when it has none
MonthNumberOf(month) ==
    IF \E i \in 1..12 : StrLower(MonthNames[i]) = StrLower(month)
    THEN CHOOSE i \in 1..12 : StrLower(MonthNames[i]) = StrLower(month)
    ELSE IF IsDigit(month) THEN ToInt(month) ELSE 0

\* YYYY-MM-DD
IsoShape(date) ==
    /\ Len(date) = 10
    /\ date[5] = "-" /\ date[8] = "-"
    /\ \A i \in {1, 2, 3, 4, 6, 7, 9, 10} : date[i] \in Digit

\* date comes from a match of a date pattern in text that has a day in
\* [1,31], a month in [1,12], a year in [1990, year + 5] and no identity
\* keyword in its context
FromValidMatch(date, text, year) ==
    \E n \in 1..Len(DATE_PATTERNS) :
        LET matches == FindIter(DATE_PATTERNS[n], text, 1)
        IN \E i \in 1..Len(matches) :
              LET d == ToInt(GroupN(text, matches[i], 1))
                  m == MonthNumberOf(GroupN(text, matches[i], 2))
                  y == ToInt(GroupN(text, matches[i], 3))
              IN /\ d \in 1..31 /\ m \in 1..12 /\ y \in 1990..(year + 5)
                 /\ ~InIdentityContext(text, matches[i])
                 /\ date = ToStr(y) \o <<"-">> \o TwoDigits(m) \o <<"-">> \o TwoDigits(d)

\* C10: extract_tanggal returns a date only from a match with a day in
\* [1,31], a month in [1,12], a year in [1990, currentYear+5] and no identity
\* keyword in its context window; '32 Januari 2021' alone gives the empty
\* string, '15 Januari 2021' outside an identity context gives '2021-01-15',
\* the same date with 'umur' in its context window is rejected, and every
\* non-empty result is a zero-padded ISO date YYYY-MM-DD.
C10_ValidatedDate ==
    tpc = "returned" =>
        /\ out # <<>> => IsoShape(out) /\ FromValidMatch(out, cleaned, now_year)
        /\ doc = <<"3", "2", " ", "J", "a", "n", "u", "a", "r", "i", " ", "2", "0", "2", "1">> => out = <<>>
        /\ doc \in {<<"1", "5", " ", "J", "a", "n", "u", "a", "r", "i", " ", "2", "0", "2", "1">>, <<"t", "a", "n", "g", "g", "a", "l", " ", "1", "5", " ", "J", "a", "n", "u", "a", "r", "i", " ", "2", "0", "2", "1">>} => out = <<"2", "0", "2", "1", "-", "0", "1", "-", "1", "5">>
        /\ doc = <<"u", "m", "u", "r", " ", "1", "5", " ", "J", "a", "n", "u", "a", "r", "i", " ", "2", "0", "2", "1">> => out = <<>>
        /\ doc = <<"1", "5", " ", "J", "a", "n", "u", "a", "r", "i", " ", "2", "0", "2", "1", " ", "K", "T", "P">> => out = <<>>

\* witness of C10: a date is returned from a text that has an identity
\* keyword outside the context window of the date
C10_Witness ==
    /\ tpc = "returned"
    /\ Contains(cleaned, <<"u", "m", "u", "r">>)
    /\ out = <<"2", "0", "2", "1", "-", "0", "1", "-", "1", "5">>

----------------------------------------------------------------------------
(* 02_case_representation.py: extract_metadata *)

\* the keys of the dict built at lines 478-490
MetadataKeys ==
    {"no_perkara", "tanggal", "jenis_perkara", "pasal", "nama", "umur", "jenis_kelamin",
     "pekerjaan", "alamat", "status_hukuman", "ringkasan_fakta"}

\* the fields whose extractors are kept abstract here: each returns a str
OtherFields == MetadataKeys \ {"tanggal", "pasal"}
OtherFieldValues == {<<>>, <<"x">>}

\* extract_metadata, lines 470-495; a dict is a function on its keys, and {}
\* is the function on no key.  text is the argument; tanggal and pasal are
\* the values of self.extract_tanggal(text) and "; ".join(self.extract_pasal(text))
\* on the cleaned text, others the values returned by the extractors of
\* OtherFields.
extract_metadata(text, tanggal, pasal, others) ==
    IF text = <<>> THEN [k \in {} |-> <<>>]
    ELSE [k \in MetadataKeys |->
            IF k = "tanggal" THEN tanggal
            ELSE IF k = "pasal" THEN pasal
            ELSE others[k]]

\* fragments of the texts given to extract_metadata
MetadataFragments ==
    { <<"1", "5", " ", "J", "a", "n", "u", "a", "r", "i", " ", "2", "0", "2", "1">>,
      <<"P", "a", "s", "a", "l", " ", "5">>, <<" ">> }

InitMetadata ==
    /\ stage = "metadata"
    /\ fn = "extract_metadata"
    /\ doc \in TextsOf(MetadataFragments, MaxMetaFrags)
    /\ now_year \in CurrentYears
    /\ tpc = "input"
    /\ cleaned = <<>>
    /\ out = <<>>
    /\ IdleRetrieval /\ IdlePredict /\ IdleExtract

\* one call of extract_metadata(text)
ExtractMetadata ==
    /\ stage = "metadata" /\ tpc = "input"
    /\ cleaned' = clean_text(doc)
    /\ tpc' = "returned"
    /\ \E listing \in Listings(pasal_found(cleaned')) :
          \E tanggal \in {extract_tanggal(cleaned', now_year)} :
              \E pasal \in {Join(<<";", " ">>, extract_pasal(listing))} :
                  \E others \in [OtherFields -> OtherFieldValues] :
                      out' = extract_metadata(doc, tanggal, pasal, others)
    /\ UNCHANGED <<stage, now_year, fn, doc, retrievalVars, predictVars, extractVars>>

NextMetadata == ExtractMetadata

SpecMetadata == InitMetadata /\ [][NextMetadata]_vars

\* C11: extract_metadata returns, for every text, a record that has the
\* eleven field keys, and for the empty text every field is the empty string.
C11_TotalRecord ==
    (stage = "metadata" /\ tpc = "returned") =>
        /\ DOMAIN out = MetadataKeys
        /\ doc = <<>> => \A k \in MetadataKeys : out[k] = <<>>

----------------------------------------------------------------------------
(* 03_retrieval.py and 04_predict.py: main and load_json_data.  A persisted
   artifact is a file that is missing, is not JSON, holds a JSON value that
   is not an array, or holds an array; an element of the array is not an
   object ("not_dict"), an object without the field the stage reads from it
   ("blank": no usable text, no "retrieval_results", no "case_id"), or a
   well-formed object ("record").  fn is the script, doc its two input
   files, out what the run did: whether an exception left main, the output
   files opened for writing, and the levels of the messages logged. *)

FileKinds == {"missing", "unparseable", "not_list", "list"}

Elements == {"not_dict", "blank", "record"}

RECURSIVE ItemLists(_)
ItemLists(n) ==
    IF n = 0 THEN {<<>>}
    ELSE ItemLists(n - 1) \cup { Append(l, e) : l \in { x \in ItemLists(n - 1) : Len(x) = n - 1 }, e \in Elements }

Artifacts(n) ==
    { [kind |-> k, items |-> <<>>] : k \in FileKinds \ {"list"} } \cup { [kind |-> "list", items |-> l] : l \in ItemLists(n) }

load_json_data(file) ==
    CASE file.kind = "missing" -> [data |-> "None", items |-> <<>>, log |-> <<"error">>]
      [] file.kind = "unparseable" -> [data |-> "None", items |-> <<>>, log |-> <<"error">>]
      [] file.kind = "not_list" -> [data |-> "None", items |-> <<>>, log |-> <<"error">>]
      [] file.kind = "list" /\ file.items = <<>> -> [data |-> "list", items |-> <<>>, log |-> <<"warning">>]
      [] file.kind = "list" /\ file.items # <<>> -> [data |-> "list", items |-> file.items, log |-> <<"info">>]

Returned(written, log) == [raised |-> FALSE, written |-> written, log |-> log]

Raised(written, log) == [raised |-> TRUE, written |-> written, log |-> log]

Records(items) == SelectSeq(items, LAMBDA e : e = "record")

\* one warning for every element the loops of main skip
SkipWarnings(items) == [i \in 1..Len(SelectSeq(items, LAMBDA e : e # "record")) |-> "warning"]

\* retrieval_main without its four emptiness checks: an empty case base or
\* query set runs through to the write of an empty result list
retrieval_main_NoEmptyCheck(cases_file, queries_file) ==
    LET cases == load_json_data(cases_file)
        queries == load_json_data(queries_file)
        loaded == cases.log \o queries.log
        looped == loaded \o SkipWarnings(cases.items) \o SkipWarnings(queries.items)
    IN  IF cases.data = "None" THEN Returned({}, cases.log \o <<"error">>)
        ELSE IF queries.data = "None" THEN Returned({}, loaded \o <<"error">>)
        ELSE Returned({"retrieved_cases.json"}, looped \o <<"info">>)

retrieval_main(cases_file, queries_file) ==
    LET cases == load_json_data(cases_file)
        queries == load_json_data(queries_file)
        loaded == cases.log \o queries.log
        looped == loaded \o SkipWarnings(cases.items) \o SkipWarnings(queries.items)
    IN  IF cases.data = "None" THEN Returned({}, cases.log \o <<"error">>)
        ELSE IF queries.data = "None" THEN Returned({}, loaded \o <<"error">>)
        ELSE IF cases.items = <<>> THEN Returned({}, loaded \o <<"warning">>)
        ELSE IF queries.items = <<>> THEN Returned({}, loaded \o <<"warning">>)
        ELSE IF Records(cases.items) = <<>> THEN Returned({}, looped \o <<"error">>)
        ELSE IF Records(queries.items) = <<>> THEN Returned({}, looped \o <<"error">>)
        ELSE Returned({"retrieved_cases.json"}, looped \o <<"info">>)

predict_main(retrieved_file, cases_file) ==
    LET retrieved_data == load_json_data(retrieved_file)
        loaded_cases == load_json_data(cases_file)
        loaded == retrieved_data.log \o loaded_cases.log
    IN  IF retrieved_data.data = "None" THEN Returned({}, retrieved_data.log \o <<"error">>)
        ELSE IF retrieved_data.items = <<>> THEN Returned({}, retrieved_data.log \o <<"warning">>)
        ELSE IF loaded_cases.data = "None" THEN Returned({}, loaded \o <<"error">>)
        ELSE IF loaded_cases.items = <<>> THEN Returned({}, loaded \o <<"warning">>)
        ELSE IF \E i \in 1..Len(loaded_cases.items) : loaded_cases.items[i] = "not_dict"
             THEN Raised({}, loaded)   \* c.get of an element that has no get
        ELSE IF Records(loaded_cases.items) = <<>> THEN Returned({}, loaded \o <<"error">>)
        ELSE IF Records(retrieved_data.items) = <<>> THEN Returned({}, loaded \o <<"error">>)
        ELSE Returned({"predictions.csv"},
                      loaded \o [i \in 1..Len(SelectSeq(retrieved_data.items, LAMBDA e : e = "not_dict")) |-> "warning"] \o <<"info">>)

InitMain ==
    /\ stage = "main"
    /\ fn \in {"03_retrieval", "04_predict"}
    /\ doc \in [cases : Artifacts(MaxItems), input : Artifacts(MaxItems)]
    /\ now_year = 0
    /\ tpc = "input"
    /\ cleaned = <<>>
    /\ out = <<>>
    /\ IdleRetrieval
    /\ IdlePredict
    /\ IdleExtract

RetrievalMain ==
    /\ stage = "main"
    /\ fn = "03_retrieval"
    /\ tpc = "input"
    /\ out' = retrieval_main(doc.cases, doc.input)
    /\ tpc' = "returned"
    /\ UNCHANGED <<stage, now_year, fn, doc, cleaned, retrievalVars, predictVars, extractVars>>

PredictMain ==
    /\ stage = "main"
    /\ fn = "04_predict"
    /\ tpc = "input"
    /\ out' = predict_main(doc.input, doc.cases)
    /\ tpc' = "returned"
    /\ UNCHANGED <<stage, now_year, fn, doc, cleaned, retrievalVars, predictVars, extractVars>>

NextMain == RetrievalMain \/ PredictMain

SpecMain == InitMain /\ [][NextMain]_vars

IsEmptyList(file) == file.kind = "list" /\ file.items = <<>>

Logged(level) == \E i \in 1..Len(out.log) : out.log[i] = level

\* C12: when both inputs of the retrieval stage or of the prediction stage are
\* JSON arrays and the case base or the query set (for prediction, the
\* retrieval result set) is the empty array, the stage logs a warning and
\* returns without raising and without opening any output file.
C12_EmptyInputNoOutput ==
    (stage = "main" /\ tpc = "returned" /\ doc.cases.kind = "list" /\ doc.input.kind = "list"
        /\ (IsEmptyList(doc.cases) \/ IsEmptyList(doc.input))) =>
        /\ ~out.raised
        /\ out.written = {}
        /\ Logged("warning")

\* the prediction stage has returned from an empty case base that it read
\* after a well-formed retrieval result set
C12_Witness ==
    /\ stage = "main"
    /\ tpc = "returned"
    /\ fn = "04_predict"
    /\ IsEmptyList(doc.cases)
    /\ doc.input.kind = "list"
    /\ Records(doc.input.items) # <<>>
    /\ out = Returned({}, <<"info", "warning", "warning">>)

Malformed(file) ==
    \/ file.kind # "list"
    \/ file.items # <<>> /\ \A i \in 1..Len(file.items) : file.items[i] = "not_dict"

\* C13: when an input artifact of the retrieval stage or of the prediction
\* stage is missing, is not JSON, is not a JSON array, or is an array of
\* elements that are not objects, the stage returns without raising and
\* without opening any output file.
C13_MalformedInputAbortsCleanly ==
    (stage = "main" /\ tpc = "returned" /\ (Malformed(doc.cases) \/ Malformed(doc.input))) =>
        /\ ~out.raised
        /\ out.written = {}

----------------------------------------------------------------------------
(* 01_pdf_to_text.py: main, the loop over pdf_files (lines 294-328).  doc is
   the list of what happens to each PDF file, out the counters after the
   loop and the indexes of the files whose raw text was saved. *)

\* "exists": the raw text file is already there (line 300); "raises": an
\* exception inside the try (line 325); "short": no text or fewer than 200
\* characters (line 310); "save_fails": save_text_file returned False (line
\* 317); "ok": the text was saved
PdfOutcomes == {"exists", "raises", "short", "save_fails", "ok"}

PdfFailures == {"raises", "short", "save_fails"}

RECURSIVE PdfBatches(_)
PdfBatches(n) ==
    IF n = 0 THEN {<<>>}
    ELSE PdfBatches(n - 1) \cup { Append(l, e) : l \in { x \in PdfBatches(n - 1) : Len(x) = n - 1 }, e \in PdfOutcomes }

NoPdfDone == [processed_count |-> 0, failed_count |-> 0, skipped_count |-> 0, written |-> <<>>, log |-> <<>>]

\* the loop that stops at the first file that fails
RECURSIVE PdfLoop_AbortOnFailure(_, _, _)
PdfLoop_AbortOnFailure(pdf_files, i, st) ==
    IF i > Len(pdf_files) THEN st
    ELSE IF pdf_files[i] = "exists"
    THEN PdfLoop_AbortOnFailure(pdf_files, i + 1, [st EXCEPT !.skipped_count = @ + 1])
    ELSE IF pdf_files[i] \in PdfFailures
    THEN [st EXCEPT !.failed_count = @ + 1, !.log = Append(@, i)]
    ELSE PdfLoop_AbortOnFailure(pdf_files, i + 1,
            [st EXCEPT !.processed_count = @ + 1, !.written = Append(@, i)])

\* lines 294-328; the log holds the index of every file an error is logged for
RECURSIVE PdfLoop(_, _, _)
PdfLoop(pdf_files, i, st) ==
    IF i > Len(pdf_files) THEN st
    ELSE IF pdf_files[i] = "exists"
    THEN PdfLoop(pdf_files, i + 1, [st EXCEPT !.skipped_count = @ + 1])
    ELSE IF pdf_files[i] \in PdfFailures
    THEN PdfLoop(pdf_files, i + 1, [st EXCEPT !.failed_count = @ + 1, !.log = Append(@, i)])
    ELSE PdfLoop(pdf_files, i + 1,
            [st EXCEPT !.processed_count = @ + 1, !.written = Append(@, i)])

\* main, lines 257-340: nothing is done when there is no PDF file (line 276)
pdf_main(pdf_files) == IF pdf_files = <<>> THEN NoPdfDone ELSE PdfLoop(pdf_files, 1, NoPdfDone)

InitPdf ==
    /\ stage = "pdf"
    /\ fn = "01_pdf_to_text"
    /\ doc \in PdfBatches(MaxPdfs)
    /\ now_year = 0
    /\ tpc = "input"
    /\ cleaned = <<>>
    /\ out = <<>>
    /\ IdleRetrieval
    /\ IdlePredict
    /\ IdleExtract

PdfMain ==
    /\ stage = "pdf"
    /\ tpc = "input"
    /\ out' = pdf_main(doc)
    /\ tpc' = "returned"
    /\ UNCHANGED <<stage, now_year, fn, doc, cleaned, retrievalVars, predictVars, extractVars>>

\* the two stages that process a batch of documents
InitBatch == InitExtract \/ InitPdf

NextBatch == ProcessFile \/ DedupAndSave \/ PdfMain

SpecBatch == InitBatch /\ [][NextBatch]_vars

\* one pass of the loop of process_all_cases goes to the next file whatever
\* happened to this one; a counted failure leaves the records collected so
\* far as they are, and any other pass leaves them or appends the record of
\* this file
ExtractionContinues ==
    (stage = "extract" /\ epc = "files" /\ epc' = "files") =>
        /\ file_idx' = file_idx + 1
        /\ error_count' \in {error_count, error_count + 1}
        /\ error_count' = error_count + 1 => extracted' = extracted
        /\ \/ extracted' = extracted
           \/ /\ Len(extracted') = Len(extracted) + 1
              /\ SubSeq(extracted', 1, Len(extracted)) = extracted
              /\ extracted'[Len(extracted')].file_name = file_idx

\* after process_all_cases every file has been visited, and every record
\* collected is in the list written, up to the duplicate check
ExtractionSavedAll ==
    (stage = "extract" /\ epc = "done") =>
        /\ file_idx = MaxFiles + 1
        /\ success_count = Len(extracted)
        /\ success_count + error_count <= MaxFiles
        /\ extracted # <<>> =>
              /\ saved.written
              /\ \A i \in 1..Len(extracted) :
                    \E a \in 1..Len(saved.cases) : saved.cases[a].case_id = extracted[i].case_id
              /\ \A a \in 1..Len(saved.cases) :
                    \E i \in 1..Len(extracted) : saved.cases[a] = extracted[i]

\* after main of 01_pdf_to_text every failing file is counted and logged,
\* and the raw text of every other file that was not there yet is saved
PdfSavedAll ==
    (stage = "pdf" /\ tpc = "returned") =>
        /\ out.failed_count = Cardinality({ i \in 1..Len(doc) : doc[i] \in PdfFailures })
        /\ out.log = SelectSeq([i \in 1..Len(doc) |-> i], LAMBDA i : doc[i] \in PdfFailures)
        /\ out.written = SelectSeq([i \in 1..Len(doc) |-> i], LAMBDA i : doc[i] = "ok")
        /\ out.processed_count = Len(out.written)
        /\ out.processed_count + out.failed_count + out.skipped_count = Len(doc)

\* C15: in process_all_cases and in main of 01_pdf_to_text a failure on one
\* document is logged and counted and the batch goes on: every other document
\* is still processed and every document processed successfully is written
\* to the output of the stage.
C15_IsolateAndContinue ==
    /\ [][ExtractionContinues]_vars
    /\ [](ExtractionSavedAll /\ PdfSavedAll)

\* witness of C15: process_all_cases has counted one failure and written the
\* records of three files, the first and the last file among them
C15_Witness ==
    /\ stage = "extract"
    /\ epc = "done"
    /\ error_count = 1
    /\ saved.written
    /\ Len(saved.cases) = 3
    /\ saved.cases[1].file_name = 1
    /\ saved.cases[3].file_name = MaxFiles

----------------------------------------------------------------------------
(* 04_predict.py: the prediction row as an audit trail *)

\* the identifiers of the cases handed to weighted_majority_vote, in order
VotedCaseIds == [i \in 1..Len(vote.cases_with_scores) |-> vote.cases_with_scores[i][1].case_id]

\* C16: in every prediction row the recorded top_retrieved_case_ids_for_method
\* is exactly the list of the identifiers of the cases that were passed, with
\* their scores, to weighted_majority_vote, and predicted_solution is
\* determined by the retrieval result of the row and the statute fields of
\* the case base.
C16_AuditTrail ==
    (stage = "predict" /\ ppc = 2) =>
        /\ prediction.top_retrieved_case_ids_for_method = VotedCaseIds
        /\ prediction.predicted_solution =
              IF CasesForWeightedVote(retrieved.case_ids, retrieved.scores, 1) = <<>> THEN NA
              ELSE VoteResult(VoteLocals(CasesForWeightedVote(retrieved.case_ids, retrieved.scores, 1),
                                         use_threshold))

----------------------------------------------------------------------------
(* 05_evaluation.py: extract_pasals, next to the one of 04_predict.py *)

\* lines 93-96: the clean-up of one match; the result of the re.sub of line
\* 94 is not assigned, and line 95 passes re.IGNORECASE as count
EvalCleanPasal(p0) ==
    LET p1 == Strip(ReSub(Plus(Cls(Space)), <<" ">>, p0))
        p3 == ReSubCount(HurufPattern, HurufRepl, p1, IgnoreCaseAsCount)
    IN StrTitle(p3)

\* extract_pasals of 05_evaluation.py, lines 78-98; the pattern of line 86 is
\* the pattern of 04_predict.py
eval_extract_pasals(text) ==
    IF text = <<>> \/ text = NA THEN <<>>
    ELSE LET pasals == FindIter(PredictPasalPattern, text, 1)
         IN Unique([i \in 1..Len(pasals) |-> EvalCleanPasal(Group0(text, pasals[i]))])

StatuteFragments ==
    { <<"P", "a", "s", "a", "l", " ", "2">>,
      <<"p", "a", "s", "a", "l", " ", " ", "3">>,
      <<" ", "A", "y", "a", "t", "(", "1", ")">>,
      <<" ", "A", "y", "a", "t", " ", "(", "1", ")">>,
      <<" ", "h", "u", "r", "u", "f", " ", "a">>,
      <<";", " ">> }

InitStatute ==
    /\ stage = "statute"
    /\ fn = "extract_pasals"
    /\ doc \in TextsOf(StatuteFragments, MaxStatuteFrags)
    /\ now_year = 0
    /\ tpc = "input"
    /\ cleaned = <<>>
    /\ out = <<>>
    /\ IdleRetrieval
    /\ IdlePredict
    /\ IdleExtract

\* the statute field is normalized by weighted_majority_vote (04_predict.py,
\* line 103) and by the evaluation of the predictions (05_evaluation.py)
NormalizeStatutes ==
    /\ stage = "statute"
    /\ tpc = "input"
    /\ out' = [predict |-> extract_pasals(doc), evaluation |-> eval_extract_pasals(doc)]
    /\ tpc' = "returned"
    /\ UNCHANGED <<stage, now_year, fn, doc, cleaned, retrievalVars, predictVars, extractVars>>

NextStatute == NormalizeStatutes

SpecStatute == InitStatute /\ [][NextStatute]_vars

\* C17: for every string other than 'N/A', extract_pasals of 04_predict.py
\* and extract_pasals of 05_evaluation.py return the same list: the same
\* citations in the same spelling and the same order.
C17_SameNormalization ==
    (stage = "statute" /\ tpc = "returned" /\ doc # NA) => out.predict = out.evaluation

----------------------------------------------------------------------------
(* 02_case_representation.py: process_all_cases, the identifier of a record
   (lines 520 and 533-534).  doc is the extracted case number and the stem of
   the file name, out the identifier. *)

\* the identifier with only the slashes replaced
current_case_id_SlashOnly(no_perkara, stem) ==
    IF no_perkara # <<>> /\ Len(no_perkara) > MinCaseNumberLen
    THEN Strip(Replace(no_perkara, <<"/">>, <<"_">>))
    ELSE stem

\* lines 520, 533-534
current_case_id(no_perkara, stem) ==
    IF no_perkara # <<>> /\ Len(no_perkara) > MinCaseNumberLen
    THEN Strip(Replace(Replace(no_perkara, <<"/">>, <<"_">>), <<".">>, <<"_">>))
    ELSE stem

CaseNumberFragments ==
    { <<"1", "2", "/", "P", "i", "d", ".", "B">>, <<"/", "2", "0", "2", "1">>,
      <<"/", "P", "N", ".", "M", "d", "n">>, <<"7">>, <<" ", "K">> }

\* extract_nomor_perkara returns a stripped string (line 167), empty when no
\* pattern matches
CaseNumbers == { t \in TextsOf(CaseNumberFragments, MaxNumberFrags) : Strip(t) = t }

FileStems == { <<"p", "u", "t", "u", "s", "a", "n", "_", "a">>, <<"c", "a", "s", "e", ".", "0", "0", "1">> }

InitIdentifier ==
    /\ stage = "identifier"
    /\ fn = "process_all_cases"
    /\ doc \in [no_perkara : CaseNumbers, stem : FileStems]
    /\ now_year = 0
    /\ tpc = "input"
    /\ cleaned = <<>>
    /\ out = <<>>
    /\ IdleRetrieval
    /\ IdlePredict
    /\ IdleExtract

AssignIdentifier ==
    /\ stage = "identifier"
    /\ tpc = "input"
    /\ out' = current_case_id(doc.no_perkara, doc.stem)
    /\ tpc' = "returned"
    /\ UNCHANGED <<stage, now_year, fn, doc, cleaned, retrievalVars, predictVars, extractVars>>

NextIdentifier == AssignIdentifier

SpecIdentifier == InitIdentifier /\ [][NextIdentifier]_vars

\* C18: the identifier of a record is the extracted case number with every
\* '/' and '.' replaced by '_' when the case number has more than 10
\* characters, and then holds neither '/' nor '.'; otherwise it is the stem
\* of the name of the source file.
C18_IdentifierAssignment ==
    (stage = "identifier" /\ tpc = "returned") =>
        IF Len(doc.no_perkara) > 10
        THEN /\ out = [i \in 1..Len(doc.no_perkara) |->
                          IF doc.no_perkara[i] \in {"/", "."} THEN "_" ELSE doc.no_perkara[i]]
             /\ \A i \in 1..Len(out) : out[i] \notin {"/", "."}
        ELSE out = doc.stem

\* witness of C18: the case number '12/Pid.B/2021' has 13 characters and
\* gives the identifier '12_Pid_B_2021'
C18_Witness ==
    /\ stage = "identifier"
    /\ tpc = "returned"
    /\ doc.no_perkara = <<"1", "2", "/", "P", "i", "d", ".", "B", "/", "2", "0", "2", "1">>
    /\ out = <<"1", "2", "_", "P", "i", "d", "_", "B", "_", "2", "0", "2", "1">>

----------------------------------------------------------------------------
(* 03_retrieval.py: extract_case_text_for_retrieval.  A case is a function
   from field names to [is_str, value]: is_str is false for a field that is
   missing or does not hold a string.  The result is [found, text]; found is
   false where the code returns None. *)

MIN_FIELD_LEN == 10    \* line 98
PASAL_CUT == 200       \* line 100
STATUS_CUT == 300      \* line 102

Ellipsis == <<".", ".", ".">>

\* line 96
PlaceholderTokens ==
    { <<"=", "=", "=">>, <<"-", "-", "-">>, Ellipsis, NA, <<"n", "u", "l", "l">>,
      <<"u", "n", "d", "e", "f", "i", "n", "e", "d">> }

\* lines 83-88
field_combinations ==
    << <<"ringkasan_fakta">>, <<"jenis_perkara", "pasal", "status_hukuman">>,
       <<"jenis_perkara", "pasal">>, <<"no_perkara", "jenis_perkara", "tanggal">> >>

\* lines 95-98, on the stripped value
UsableValue(value) ==
    /\ value # <<>>
    /\ value \notin PlaceholderTokens
    /\ Cardinality(Range(value)) > 1
    /\ Len(value) >= MIN_FIELD_LEN

\* the cut that appends no ellipsis
CutValue_NoEllipsis(field, value) ==
    IF field = "pasal" /\ Len(value) > PASAL_CUT THEN SubSeq(value, 1, PASAL_CUT)
    ELSE IF field = "status_hukuman" /\ Len(value) > STATUS_CUT THEN SubSeq(value, 1, STATUS_CUT)
    ELSE value

\* lines 100-103
CutValue(field, value) ==
    IF field = "pasal" /\ Len(value) > PASAL_CUT THEN SubSeq(value, 1, PASAL_CUT) \o Ellipsis
    ELSE IF field = "status_hukuman" /\ Len(value) > STATUS_CUT THEN SubSeq(value, 1, STATUS_CUT) \o Ellipsis
    ELSE value

\* lines 91-105: text_parts of one combination
RECURSIVE TextParts(_, _, _)
TextParts(case, fields_to_try, i) ==
    IF i > Len(fields_to_try) THEN <<>>
    ELSE (IF case[fields_to_try[i]].is_str /\ UsableValue(Strip(case[fields_to_try[i]].value))
          THEN <<CutValue(fields_to_try[i], Strip(case[fields_to_try[i]].value))>>
          ELSE <<>>)
         \o TextParts(case, fields_to_try, i + 1)

\* lines 90-110: the loop over the combinations
RECURSIVE TryCombinations(_, _)
TryCombinations(case, c) ==
    IF c > Len(field_combinations) THEN [found |-> FALSE, text |-> <<>>]
    ELSE IF TextParts(case, field_combinations[c], 1) # <<>>
    THEN [found |-> TRUE, text |-> Join(<<".", " ">>, TextParts(case, field_combinations[c], 1))]
    ELSE TryCombinations(case, c + 1)

extract_case_text_for_retrieval(case) == TryCombinations(case, 1)

\* a string of n characters
Letters(n) == [i \in 1..n |-> IF i % 2 = 1 THEN "a" ELSE "b"]

NotAString == [is_str |-> FALSE, value |-> <<>>]

Str(value) == [is_str |-> TRUE, value |-> value]

CaseFieldValues ==
    [ringkasan_fakta |-> { NotAString, Str(<<>>), Str(NA), Str(Letters(MIN_FIELD_LEN - 1)),
                           Str([i \in 1..12 |-> "x"]),
                           Str(<<" ", " ">> \o Letters(MIN_FIELD_LEN) \o <<" ">>) },
     jenis_perkara |-> { Str(<<>>), Str(<<"=", "=", "=">>), Str(<<"P", "i", "d", "a", "n", "a", " ", "K", "h", "u", "s", "u", "s">>) },
     pasal |-> { Str(<<>>), Str(<<"P", "a", "s", "a", "l", " ", "2", " ", "A", "y", "a", "t", " ", "(", "1", ")">>) } \cup { Str(Letters(PASAL_CUT + d)) : d \in 0..MaxOver },
     status_hukuman |-> { Str(NA), Str(Letters(MIN_FIELD_LEN + 1)) }
                            \cup { Str(Letters(STATUS_CUT + d)) : d \in 0..MaxOver },
     no_perkara |-> { Str(<<>>), Str(<<"1", "2", "/", "P", "i", "d", ".", "B", "/", "2", "0", "2", "1">>) },
     tanggal |-> { NotAString, Str(<<"2", "0", "2", "1", "-", "0", "1", "-", "1", "5">>) }]

InitCaseText ==
    /\ stage = "case_text"
    /\ fn = "extract_case_text_for_retrieval"
    /\ doc \in [ringkasan_fakta : CaseFieldValues.ringkasan_fakta,
                 jenis_perkara : CaseFieldValues.jenis_perkara,
                 pasal : CaseFieldValues.pasal,
                 status_hukuman : CaseFieldValues.status_hukuman,
                 no_perkara : CaseFieldValues.no_perkara,
                 tanggal : CaseFieldValues.tanggal]
    /\ now_year = 0
    /\ tpc = "input"
    /\ cleaned = <<>>
    /\ out = <<>>
    /\ IdleRetrieval
    /\ IdlePredict
    /\ IdleExtract

ExtractCaseText ==
    /\ stage = "case_text"
    /\ tpc = "input"
    /\ out' = extract_case_text_for_retrieval(doc)
    /\ tpc' = "returned"
    /\ UNCHANGED <<stage, now_year, fn, doc, cleaned, retrievalVars, predictVars, extractVars>>

NextCaseText == ExtractCaseText

SpecCaseText == InitCaseText /\ [][NextCaseText]_vars

----------------------------------------------------------------------------
(* Properties of extract_case_text_for_retrieval *)

\* the value of a field of the case, without its surrounding whitespace
FieldValue(f) == Strip(doc[f].value)

\* a usable field: a non-empty string that is no placeholder token, has at
\* least 10 characters and more than one distinct character
UsableField(f) ==
    /\ doc[f].is_str
    /\ FieldValue(f) # <<>>
    /\ FieldValue(f) \notin PlaceholderTokens
    /\ Len(FieldValue(f)) >= 10
    /\ \E i \in 2..Len(FieldValue(f)) : FieldValue(f)[i] # FieldValue(f)[1]

FallbackOrder ==
    << <<"ringkasan_fakta">>, <<"jenis_perkara", "pasal", "status_hukuman">>,
       <<"jenis_perkara", "pasal">>, <<"no_perkara", "jenis_perkara", "tanggal">> >>

\* the combinations that have a usable field
UsableCombinations ==
    { c \in 1..Len(FallbackOrder) : \E i \in 1..Len(FallbackOrder[c]) : UsableField(FallbackOrder[c][i]) }

\* the first of them
FirstUsableCombination == CHOOSE c \in UsableCombinations : \A b \in UsableCombinations : c <= b

\* the part a usable field gives: its value, and for a statute field of more
\* than 200 or a verdict field of more than 300 characters the first 200 or
\* 300 characters followed by mark
PartOf(f, mark) ==
    IF f = "pasal" /\ Len(FieldValue(f)) > 200 THEN SubSeq(FieldValue(f), 1, 200) \o mark
    ELSE IF f = "status_hukuman" /\ Len(FieldValue(f)) > 300 THEN SubSeq(FieldValue(f), 1, 300) \o mark
    ELSE FieldValue(f)

\* the '. '-join of the parts of the usable fields of combination c
JoinedParts(c, mark) ==
    LET usable == SelectSeq(FallbackOrder[c], UsableField)
    IN Join(<<".", " ">>, [i \in 1..Len(usable) |-> PartOf(usable[i], mark)])

\* C19: extract_case_text_for_retrieval returns the '. '-join of the usable
\* fields of the first combination, in the fixed order, that has a usable
\* field, and None when no combination has one; a statute field longer than
\* 200 and a verdict field longer than 300 characters are cut to their first
\* 200 and 300 characters before joining.
C19_FieldCombinationFallback ==
    (stage = "case_text" /\ tpc = "returned") =>
        IF UsableCombinations = {} THEN ~out.found
        ELSE out.found /\ out.text = JoinedParts(FirstUsableCombination, <<>>)

\* C19 as amended: the same, the cut statute or verdict field being its first
\* 200 or 300 characters followed by '...'.
C19_FallbackWithEllipsis ==
    (stage = "case_text" /\ tpc = "returned") =>
        IF UsableCombinations = {} THEN ~out.found
        ELSE out.found /\ out.text = JoinedParts(FirstUsableCombination, <<".", ".", ".">>)

\* witness of C19: the fact summary is too short, so the second combination
\* is used; its statute field has 201 and its verdict field 301 characters,
\* and the text is the category, 203 and 303 characters joined by '. '
C19_Witness ==
    /\ stage = "case_text"
    /\ tpc = "returned"
    /\ doc.ringkasan_fakta.value = Letters(9)
    /\ UsableField("jenis_perkara")
    /\ Len(doc.pasal.value) = 201
    /\ Len(doc.status_hukuman.value) = 301
    /\ out.found
    /\ Len(out.text) = Len(doc.jenis_perkara.value) + 2 + 203 + 2 + 303

----------------------------------------------------------------------------
(* 05_evaluation.py: calculate_average_precision and the reciprocal rank of
   eval_retrieval_all_methods.  A metric value is kept exactly as a fraction
   <<numerator, denominator>>.  doc is the retrieved list and the list of
   relevant ids of one query and method, out the two metrics. *)

FracZero == <<0, 1>>

FracAdd(a, b) == <<a[1] * b[2] + b[1] * a[2], a[2] * b[2]>>

RECURSIVE FracSum(_)
FracSum(fs) == IF fs = <<>> THEN FracZero ELSE FracAdd(fs[1], FracSum(Tail(fs)))

\* lines 146-150: precisions after the loop over retrieved_ids
RECURSIVE Precisions(_, _, _, _)
Precisions(retrieved_ids, relevant_set, i, relevant_found) ==
    IF i > Len(retrieved_ids) THEN <<>>
    ELSE IF retrieved_ids[i] \in relevant_set
    THEN <<<<relevant_found + 1, i>>>> \o Precisions(retrieved_ids, relevant_set, i + 1, relevant_found + 1)
    ELSE Precisions(retrieved_ids, relevant_set, i + 1, relevant_found)

\* the average over the hits instead of over the relevant ids
calculate_average_precision_OverHits(retrieved_ids, relevant_ids) ==
    IF relevant_ids = <<>> THEN FracZero
    ELSE LET precisions == Precisions(retrieved_ids, Range(relevant_ids), 1, 0)
         IN IF precisions = <<>> THEN FracZero
            ELSE <<FracSum(precisions)[1], FracSum(precisions)[2] * Len(precisions)>>

\* lines 137-155
calculate_average_precision(retrieved_ids, relevant_ids) ==
    IF relevant_ids = <<>> THEN FracZero
    ELSE LET precisions == Precisions(retrieved_ids, Range(relevant_ids), 1, 0)
         IN IF precisions = <<>> THEN FracZero
            ELSE <<FracSum(precisions)[1], FracSum(precisions)[2] * Len(relevant_ids)>>

\* eval_retrieval_all_methods, lines 238-243
RECURSIVE ReciprocalRank(_, _, _)
ReciprocalRank(retrieved_case_ids, relevant_case_ids, i) ==
    IF i > Len(retrieved_case_ids) THEN FracZero
    ELSE IF retrieved_case_ids[i] \in Range(relevant_case_ids) THEN <<1, i>>
    ELSE ReciprocalRank(retrieved_case_ids, relevant_case_ids, i + 1)

\* the lists of at most n pairwise distinct case ids
DistinctLists(n) ==
    UNION { { l \in [1..k -> 1..(MaxRanked + 1)] : \A a, b \in 1..k : a # b => l[a] # l[b] } : k \in 0..n }

InitMetrics ==
    /\ stage = "metrics"
    /\ fn = "eval_retrieval_all_methods"
    /\ doc \in [retrieved_ids : DistinctLists(MaxRanked), relevant_ids : DistinctLists(MaxRanked)]
    /\ now_year = 0
    /\ tpc = "input"
    /\ cleaned = <<>>
    /\ out = <<>>
    /\ IdleRetrieval
    /\ IdlePredict
    /\ IdleExtract

\* lines 228-243 for one query and one method
EvalQuery ==
    /\ stage = "metrics"
    /\ tpc = "input"
    /\ out' = [ap |-> calculate_average_precision(doc.retrieved_ids, doc.relevant_ids),
               rr |-> ReciprocalRank(doc.retrieved_ids, doc.relevant_ids, 1)]
    /\ tpc' = "returned"
    /\ UNCHANGED <<stage, now_year, fn, doc, cleaned, retrievalVars, predictVars, extractVars>>

NextMetrics == EvalQuery

SpecMetrics == InitMetrics /\ [][NextMetrics]_vars

----------------------------------------------------------------------------
(* Properties of the retrieval metrics *)

\* the positions of the retrieved list that hold a relevant id
HitPositions == { i \in 1..Len(doc.retrieved_ids) : doc.retrieved_ids[i] \in Range(doc.relevant_ids) }

\* the sum over the hit positions i of (number of hits in 1..i) / i,
\* multiplied by unit, a multiple of every position
RECURSIVE HitPrecisionSum(_, _)
HitPrecisionSum(positions, unit) ==
    IF positions = {} THEN 0
    ELSE LET i == CHOOSE p \in positions : TRUE
         IN Cardinality({ h \in HitPositions : h <= i }) * (unit \div i)
            + HitPrecisionSum(positions \ {i}, unit)

\* C20: for a retrieved list of distinct ids and a list of distinct relevant
\* ids, the average precision is the sum over the positions i that hold a
\* relevant id of (number of relevant ids in positions 1..i)/i, divided by
\* the number of relevant ids, and 0 when there is no relevant id or no hit;
\* the reciprocal rank is 1/(position of the first relevant id) and 0 when no
\* relevant id is retrieved; both lie in [0,1].
C20_AveragePrecisionAndRR ==
    (stage = "metrics" /\ tpc = "returned") =>
        LET unit == LcmUpTo(Len(doc.retrieved_ids))
        IN /\ out.ap[2] > 0 /\ out.rr[2] > 0
           /\ IF doc.relevant_ids = <<>> \/ HitPositions = {} THEN out.ap[1] = 0
              ELSE out.ap[1] * unit * Len(doc.relevant_ids) = HitPrecisionSum(HitPositions, unit) * out.ap[2]
           /\ IF HitPositions = {} THEN out.rr[1] = 0
              ELSE \E first \in HitPositions :
                      /\ \A h \in HitPositions : first <= h
                      /\ out.rr[1] * first = out.rr[2]
           /\ 0 <= out.ap[1] /\ out.ap[1] <= out.ap[2]
           /\ 0 <= out.rr[1] /\ out.rr[1] <= out.rr[2]

\* witness of C20: three ids retrieved, two relevant ids, hits at positions
\* 1 and 3: the average precision is (1/1 + 2/3)/2 = 5/6 and the reciprocal
\* rank 1
C20_Witness ==
    /\ stage = "metrics"
    /\ tpc = "returned"
    /\ doc.retrieved_ids = <<1, 2, 3>>
    /\ doc.relevant_ids = <<3, 1>>
    /\ out.ap[1] * 6 = out.ap[2] * 5
    /\ out.rr[1] = out.rr[2]

----------------------------------------------------------------------------
(* 05_evaluation.py: eval_prediction_all_methods, the loop over the rows of
   one prediction file (lines 354-398).  A row is the pair of statute sets
   extract_pasals gives for the ground truth and for the prediction, or a
   row the loop skips because its query or its case is unknown (lines
   364-370).  A statute is a number; metric values are exact fractions. *)

MATCH_RATIO_PERCENT == 24   \* line 381: match_ratio >= 0.24

\* a fraction in lowest terms
FracNorm(a) == <<a[1] \div Gcd(a[1], a[2]), a[2] \div Gcd(a[1], a[2])>>

FracMul(a, b) == FracNorm(<<a[1] * b[1], a[2] * b[2]>>)

FracDiv(a, b) == FracNorm(<<a[1] * b[2], a[2] * b[1]>>)

SetMax(a, b) == IF a >= b THEN a ELSE b

NoTotals == [total_tp |-> 0, total_fp |-> 0, total_fn |-> 0, exact_matches |-> 0, total_predictions |-> 0]

\* lines 360-392
RECURSIVE PredictionTotals(_, _, _)
PredictionTotals(rows, i, t) ==
    IF i > Len(rows) THEN t
    ELSE IF ~rows[i].evaluated THEN PredictionTotals(rows, i + 1, t)
    ELSE LET true_pasals == rows[i].true_pasals
             pred_pasals == rows[i].pred_pasals
             intersection_len == Cardinality(true_pasals \cap pred_pasals)
             max_len == SetMax(Cardinality(true_pasals), 1)
         IN PredictionTotals(rows, i + 1,
               [total_tp |-> t.total_tp + Cardinality(true_pasals \cap pred_pasals),
                total_fp |-> t.total_fp + Cardinality(pred_pasals \ true_pasals),
                total_fn |-> t.total_fn + Cardinality(true_pasals \ pred_pasals),
                exact_matches |-> t.exact_matches
                    + (IF 100 * intersection_len >= MATCH_RATIO_PERCENT * max_len THEN 1 ELSE 0),
                total_predictions |-> t.total_predictions + 1])

\* the precision of one row, 0 for an empty prediction
RowPrecision(row) ==
    IF row.pred_pasals = {} THEN FracZero
    ELSE <<100 * Cardinality(row.true_pasals \cap row.pred_pasals), Cardinality(row.pred_pasals)>>

\* the mean of the precisions of the evaluated rows
PrecisionOf_MacroAverage(rows, t) ==
    LET evaluated == SelectSeq(rows, LAMBDA r : r.evaluated)
    IN IF evaluated = <<>> THEN FracZero
       ELSE <<FracSum([i \in 1..Len(evaluated) |-> RowPrecision(evaluated[i])])[1],
              FracSum([i \in 1..Len(evaluated) |-> RowPrecision(evaluated[i])])[2] * Len(evaluated)>>

\* line 396, in percent
PrecisionOf(rows, t) ==
    IF t.total_tp + t.total_fp > 0 THEN <<t.total_tp * 100, t.total_tp + t.total_fp>> ELSE FracZero

\* line 397, in percent
RecallOf(t) ==
    IF t.total_tp + t.total_fn > 0 THEN <<t.total_tp * 100, t.total_tp + t.total_fn>> ELSE FracZero

\* line 398, in percent
F1Of(precision, recall) ==
    IF FracAdd(precision, recall)[1] > 0
    THEN LET p == FracDiv(precision, <<100, 1>>)
             r == FracDiv(recall, <<100, 1>>)
         IN FracMul(FracDiv(FracMul(<<2, 1>>, FracMul(p, r)), FracAdd(p, r)), <<100, 1>>)
    ELSE FracZero

\* lines 354-398 for one prediction file
prediction_metrics(rows) ==
    LET t == PredictionTotals(rows, 1, NoTotals)
    IN [totals |-> t,
        accuracy |-> IF t.total_predictions > 0 THEN <<t.exact_matches * 100, t.total_predictions>>
                     ELSE FracZero,
        precision |-> PrecisionOf(rows, t),
        recall |-> RecallOf(t),
        f1 |-> F1Of(PrecisionOf(rows, t), RecallOf(t))]

SkippedRow == [evaluated |-> FALSE, true_pasals |-> {}, pred_pasals |-> {}]

\* the ground truth holds the statutes 1..n; the prediction holds some of
\* the statutes 1 and 2 and of a statute that no ground truth holds
PredictionRows ==
    {SkippedRow} \cup
    { [evaluated |-> TRUE, true_pasals |-> 1..n, pred_pasals |-> p] :
        n \in 0..MaxStatutes, p \in SUBSET {1, 2, MaxStatutes + 1} }

InitPredEval ==
    /\ stage = "pred_eval"
    /\ fn = "eval_prediction_all_methods"
    /\ doc \in UNION { [1..k -> PredictionRows] : k \in 0..MaxRows }
    /\ now_year = 0
    /\ tpc = "input"
    /\ cleaned = <<>>
    /\ out = <<>>
    /\ IdleRetrieval
    /\ IdlePredict
    /\ IdleExtract

EvalPredictions ==
    /\ stage = "pred_eval"
    /\ tpc = "input"
    /\ out' = prediction_metrics(doc)
    /\ tpc' = "returned"
    /\ UNCHANGED <<stage, now_year, fn, doc, cleaned, retrievalVars, predictVars, extractVars>>

NextPredEval == EvalPredictions

SpecPredEval == InitPredEval /\ [][NextPredEval]_vars

----------------------------------------------------------------------------
(* Properties of the prediction metrics *)

EvaluatedRows == { i \in 1..Len(doc) : doc[i].evaluated }

\* the number of statutes of a row that are predicted and true ("tp"),
\* predicted and not true ("fp"), true and not predicted ("fn")
RowCount(row, kind) ==
    CASE kind = "tp" -> Cardinality(row.true_pasals \cap row.pred_pasals)
      [] kind = "fp" -> Cardinality(row.pred_pasals \ row.true_pasals)
      [] kind = "fn" -> Cardinality(row.true_pasals \ row.pred_pasals)

RECURSIVE SumOverRows(_, _)
SumOverRows(rows, kind) ==
    IF rows = {} THEN 0
    ELSE LET i == CHOOSE r \in rows : TRUE IN RowCount(doc[i], kind) + SumOverRows(rows \ {i}, kind)

TruePositives == SumOverRows(EvaluatedRows, "tp")

FalsePositives == SumOverRows(EvaluatedRows, "fp")

FalseNegatives == SumOverRows(EvaluatedRows, "fn")

----------------------------------------------------------------------------
(* 04_predict.py: weighted_majority_vote on neighbours that hold more than
   TOP_N_PREDICTED_PASALS distinct statutes *)

\* 'Pasal 1; Pasal 2; ...; Pasal n'
StatuteList(n) ==
    Join(<<";", " ">>, [k \in 1..n |-> <<"P", "a", "s", "a", "l", " ">> \o ToStr(k)])

\* three cases of a case base: one with more statutes than the top-N policy
\* keeps, one with a statute of its own, one that shares a statute with each
VotePool ==
    << [case_id |-> 201, pasal |-> StatuteList(TOP_N_PREDICTED_PASALS + MaxExtraStatutes)],
       [case_id |-> 202, pasal |-> <<"P", "a", "s", "a", "l", " ", "9", "9">>],
       [case_id |-> 203, pasal |-> <<"P", "a", "s", "a", "l", " ", "1", ";", " ", "P", "a", "s", "a", "l", " ", "9", "9">>] >>

\* the neighbour lists: pairwise distinct cases, each with a score
NeighbourLists ==
    UNION { { [i \in 1..k |-> <<VotePool[ids[i]], sc[i]>>] :
                ids \in { f \in [1..k -> 1..Len(VotePool)] : \A a, b \in 1..k : a # b => f[a] # f[b] },
                sc \in [1..k -> RetrievedScores] } : k \in 0..MaxNeighbours }

InitVote ==
    /\ stage = "vote"
    /\ ppc = 1
    /\ use_threshold \in BOOLEAN
    /\ retrieved = EmptyResult
    /\ \E cases_with_scores \in NeighbourLists :
          vote = [cases_with_scores |-> cases_with_scores, pasal_weighted_scores |-> <<>>,
                  predicted_pasals_final |-> <<>>]
    /\ prediction = NoPrediction
    /\ IdleRetrieval /\ IdleExtract /\ IdleText

\* weighted_majority_vote, lines 86-137
Vote ==
    /\ stage = "vote" /\ ppc = 1
    /\ vote' = VoteLocals(vote.cases_with_scores, use_threshold)
    /\ prediction' = [predicted_solution |-> VoteResult(vote'),
                      top_retrieved_case_ids_for_method |-> <<>>]
    /\ ppc' = 2
    /\ UNCHANGED <<stage, use_threshold, retrieved, retrievalVars, extractVars, textVars>>

NextVote == Vote

SpecVote == InitVote /\ [][NextVote]_vars

\* the accumulated weight of the statute at position i of the output
WeightOfFinal(i) ==
    DictGet(vote.pasal_weighted_scores, vote.predicted_pasals_final[i], 0)

WeightedStatutes == { vote.pasal_weighted_scores[i][1] : i \in 1..Len(vote.pasal_weighted_scores) }

----------------------------------------------------------------------------
(* 02_case_representation.py: extract_personal_data for the field 'nama' *)

PERSONAL_SEARCH_LIMIT == 20000

\* [a-zA-Z\s\.\-']
NameChar == Letter \cup Space \cup {".", "-", "'"}

\* ([A-Za-z][a-zA-Z\s\.\-']{2,80}(?:\s+(?:bin|binti)\s+[A-Za-z][a-zA-Z\s\.\-']{2,80})?)
NameGroup ==
    Grp(1, Cat(<<Cls(Letter), Rep(Cls(NameChar), 2, 80),
                 Opt(Cat(<<Plus(Cls(Space)), Alt(<<LitI(<<"b", "i", "n">>), LitI(<<"b", "i", "n", "t", "i">>)>>), Plus(Cls(Space)),
                           Cls(Letter), Rep(Cls(NameChar), 2, 80)>>))>>))

\* PERSONAL_PATTERNS['nama'], lines 88-100
NAMA_PATTERNS ==
    << Cat(<<Opt(Alt(<<LitI(<<"T", "e", "r", "d", "a", "k", "w", "a">>), LitI(<<"P", "e", "n", "g", "g", "u", "g", "a", "t">>), LitI(<<"T", "e", "r", "g", "u", "g", "a", "t">>), LitI(<<"P", "e", "m", "o", "h", "o", "n">>),
                       LitI(<<"P", "e", "m", "b", "a", "n", "d", "i", "n", "g">>), LitI(<<"T", "e", "r", "b", "a", "n", "d", "i", "n", "g">>), LitI(<<"K", "u", "a", "s", "a", " ", "H", "u", "k", "u", "m">>),
                       LitI(<<"J", "a", "k", "s", "a", " ", "P", "e", "n", "u", "n", "t", "u", "t", " ", "U", "m", "u", "m">>), LitI(<<"P", "e", "n", "a", "s", "e", "h", "a", "t", " ", "H", "u", "k", "u", "m">>), LitI(<<"S", "a", "k", "s", "i">>), LitI(<<"A", "h", "l", "i">>)>>)),
             Star(Cls(Space)), Star(Cls(Space \cup {":", "-", ",", ".", "(", ")"})),
             NameGroup, Opt(Cat(<<Star(Cls(Space)), Cls({","})>>)), Star(Cls(Space)),
             Alt(<<Cat(<<LitI(<<"T", "e", "m", "p", "a", "t">>), Plus(Cls(Space)), LitI(<<"l", "a", "h", "i", "r">>)>>), LitI(<<"T", "T", "L">>), LitI(<<"l", "a", "h", "i", "r">>),
                   LitI(<<"U", "m", "u", "r">>), LitI(<<"U", "s", "i", "a">>), Cat(<<LitI(<<"J", "e", "n", "i", "s">>), Plus(Cls(Space)), LitI(<<"K", "e", "l", "a", "m", "i", "n">>)>>),
                   LitI(<<"P", "e", "k", "e", "r", "j", "a", "a", "n">>), LitI(<<"A", "l", "a", "m", "a", "t">>), LitI(<<"P", "e", "k", "e", "r", "j", "a", "a", "n">>), LitI(<<"J", "a", "b", "a", "t", "a", "n">>)>>)>>),
       Cat(<<Alt(<<LitI(<<"N", "a", "m", "a">>), LitI(<<"N", "a", "m", "a", " ", "L", "e", "n", "g", "k", "a", "p">>)>>), Star(Cls(Space)), Opt(Cls({":", "-"})), Star(Cls(Space)),
             NameGroup>>),
       Cat(<<Alt(<<LitI(<<"T", "e", "r", "d", "a", "k", "w", "a">>), LitI(<<"P", "e", "n", "g", "g", "u", "g", "a", "t">>), LitI(<<"T", "e", "r", "g", "u", "g", "a", "t">>), LitI(<<"P", "e", "m", "o", "h", "o", "n">>),
                   LitI(<<"P", "e", "m", "b", "a", "n", "d", "i", "n", "g">>), LitI(<<"T", "e", "r", "b", "a", "n", "d", "i", "n", "g">>), LitI(<<"P", "e", "m", "o", "h", "o", "n", " ", "K", "a", "s", "a", "s", "i">>), LitI(<<"T", "e", "r", "m", "o", "h", "o", "n", " ", "K", "a", "s", "a", "s", "i">>),
                   LitI(<<"J", "a", "k", "s", "a", " ", "P", "e", "n", "u", "n", "t", "u", "t", " ", "U", "m", "u", "m">>)>>),
             Star(Cls(Space)), Opt(Cls({":", "-"})), Star(Cls(Space)), NameGroup>>),
       Cat(<<Alt(<<LitI(<<"a", ".", "n", ".">>), LitI(<<"o", "l", "e", "h">>)>>), Star(Cls(Space)), Cls({":"}), Star(Cls(Space)), NameGroup>>),
       Cat(<<Alt(<<LitI(<<"m", "e", "n", "y", "a", "t", "a", "k", "a", "n">>), LitI(<<"m", "e", "n", "j", "a", "t", "u", "h", "k", "a", "n">>)>>), Plus(Cls(Space)),
             Alt(<<LitI(<<"p", "i", "d", "a", "n", "a">>), LitI(<<"h", "u", "k", "u", "m", "a", "n">>)>>), Plus(Cls(Space)), LitI(<<"k", "e", "p", "a", "d", "a">>), Plus(Cls(Space)),
             Alt(<<LitI(<<"T", "e", "r", "d", "a", "k", "w", "a">>), LitI(<<"P", "a", "r", "a", " ", "T", "e", "r", "d", "a", "k", "w", "a">>), LitI(<<"A", "n", "a", "k">>)>>), Plus(Cls(Space)), NameGroup>>) >>

\* pattern.findall(search_area) for a pattern with one group
findall(r, s) ==
    LET ms == FindIter(r, s, 1) IN [i \in 1..Len(ms) |-> GroupN(s, ms[i], 1)]

\* lines 271-275: the cleaned value of a match
CleanValue(match) ==
    LET kept == WordChar \cup Space \cup {".", "-", ",", "(", ")", "/"}
        v1 == Strip(SelectSeq(Strip(match), LAMBDA c : c \in kept))
    IN Strip(ReSub(Plus(Cls(Space)), <<" ">>, v1))

\* len(value.split())
WordCount(value) ==
    Cardinality({ i \in 1..Len(value) : value[i] \notin Space /\ (i = 1 \/ value[i - 1] \in Space) })

\* line 289
excluded_terms ==
    << <<"t", "e", "r", "d", "a", "k", "w", "a">>, <<"p", "e", "n", "g", "g", "u", "g", "a", "t">>, <<"t", "e", "r", "g", "u", "g", "a", "t">>, <<"p", "e", "m", "o", "h", "o", "n">>, <<"k", "u", "a", "s", "a", " ", "h", "u", "k", "u", "m">>, <<"m", "a", "j", "e", "l", "i", "s", " ", "h", "a", "k", "i", "m">>,
       <<"s", "a", "k", "s", "i">>, <<"a", "h", "l", "i">>, <<"j", "a", "k", "s", "a", " ", "p", "e", "n", "u", "n", "t", "u", "t", " ", "u", "m", "u", "m">>, <<"p", "a", "n", "i", "t", "e", "r", "a">>, <<"h", "a", "k", "i", "m", " ", "k", "e", "t", "u", "a">>,
       <<"h", "a", "k", "i", "m", " ", "a", "n", "g", "g", "o", "t", "a">>, <<"p", "a", "n", "i", "t", "e", "r", "a", " ", "p", "e", "n", "g", "g", "a", "n", "t", "i">>, <<"p", "a", "r", "a", " ", "t", "e", "r", "d", "a", "k", "w", "a">>, <<"p", "a", "r", "a", " ", "p", "e", "n", "g", "g", "u", "g", "a", "t">> >>

\* line 285 and line 292: the value is skipped
SkippedName(value) ==
    \/ Len(value) < 3
    \/ \A i \in 1..Len(value) : value[i] \notin Letter
    \/ \E k \in 1..Len(excluded_terms) : Contains(StrLower(value), excluded_terms[k])

\* line 296: re.search(r'\b(bin|binti)\b', value, re.IGNORECASE) and len(value.split()) >= 3
Patronymic(value) ==
    /\ Search(Cat(<<Alt(<<Bos, Cls(AnyChar \ WordChar)>>), Alt(<<LitI(<<"b", "i", "n", "t", "i">>), LitI(<<"b", "i", "n">>)>>),
                    Alt(<<Eos, Cls(AnyChar \ WordChar)>>)>>), value, 1).ok
    /\ WordCount(value) >= 3

\* line 302: ^(?:[A-Z][a-zA-Z\.\-']+\s+){1,}[A-Z][a-zA-Z\.\-']+$
CapitalizedWords ==
    Cat(<<Plus(Cat(<<Cls(Upper), Plus(Cls(Letter \cup {".", "-", "'"})), Plus(Cls(Space))>>)),
          Cls(Upper), Plus(Cls(Letter \cup {".", "-", "'"}))>>)

\* line 308: ^[A-Z][a-zA-Z\s\.\-']+$
CapitalizedStart == Cat(<<Cls(Upper), Plus(Cls(NameChar))>>)

\* the locals of extract_personal_data, with the patterns whose findall was
\* run and the candidates recorded in best_match_value, in order
NameSearchStart ==
    [best_match_value |-> <<>>, returned |-> FALSE, value |-> <<>>, examined |-> <<>>, recorded |-> <<>>]

\* lines 269-314: the loop over the matches of pattern n, from match i
RECURSIVE MatchLoop(_, _, _, _)
MatchLoop(n, matches, i, st) ==
    IF i > Len(matches) THEN st
    ELSE LET value == CleanValue(matches[i])
             better == Len(value) > Len(st.best_match_value)
             record == /\ better
                       /\ \/ FullMatch(CapitalizedWords, value)
                          \/ WordCount(value) >= 1 /\ FullMatch(CapitalizedStart, value)
             after == IF record
                      THEN [st EXCEPT !.best_match_value = StrTitle(value),
                                      !.recorded = Append(@, [pattern |-> n, value |-> StrTitle(value)])]
                      ELSE st
         IN IF SkippedName(value) THEN MatchLoop(n, matches, i + 1, st)
            ELSE IF Patronymic(value) THEN [st EXCEPT !.returned = TRUE, !.value = StrTitle(value)]
            ELSE IF after.best_match_value # <<>> /\ WordCount(after.best_match_value) > 1
                 THEN after  \* break, line 314
                 ELSE MatchLoop(n, matches, i + 1, after)

\* lines 266-324: the loop over the patterns, from pattern n
RECURSIVE PatternLoop(_, _, _)
PatternLoop(search_area, n, st) ==
    IF n > Len(NAMA_PATTERNS) THEN [st EXCEPT !.returned = TRUE, !.value = st.best_match_value]
    ELSE LET after == MatchLoop(n, findall(NAMA_PATTERNS[n], search_area), 1,
                                [st EXCEPT !.examined = Append(@, n)])
         IN IF after.returned THEN after ELSE PatternLoop(search_area, n + 1, after)

\* extract_personal_data(text, 'nama')
extract_personal_data(text) ==
    PatternLoop(Take(text, PERSONAL_SEARCH_LIMIT), 1, NameSearchStart)

NameFragments ==
    { <<"N", "a", "m", "a", ":", " ", "A", "l", "i", " ", "U", "m", "a", "r", ";", " ">>, <<"N", "a", "m", "a", ":", " ", "A", "l", "i", ";", " ">>, <<"T", "e", "r", "d", "a", "k", "w", "a", ":", " ", "A", "l", "i", " ", "b", "i", "n", " ", "U", "m", "a", "r", ";", " ">>, <<"T", "e", "r", "d", "a", "k", "w", "a", ":", " ", "A", "l", "i", " ", "U", "m", "a", "r", " ", "S", "a", "i", "d", ";", " ">>,
      <<"A", "l", "i", " ", "U", "m", "a", "r", ";", " ">> }

InitName ==
    /\ stage = "nama"
    /\ fn = "extract_personal_data"
    /\ doc \in TextsOf(NameFragments, MaxNameFrags)
    /\ tpc = "input"
    /\ now_year = 0
    /\ cleaned = <<>>
    /\ out = <<>>
    /\ IdleRetrieval /\ IdlePredict /\ IdleExtract

ExtractName ==
    /\ stage = "nama" /\ tpc = "input"
    /\ out' = extract_personal_data(doc)
    /\ tpc' = "returned"
    /\ UNCHANGED <<stage, now_year, fn, doc, cleaned, retrievalVars, predictVars, extractVars>>

NextName == ExtractName

SpecName == InitName /\ [][NextName]_vars

\* the first candidate of two or more words recorded in best_match_value
FirstGoodCandidate ==
    LET good == { k \in 1..Len(out.recorded) : WordCount(out.recorded[k].value) >= 2 }
    IN out.recorded[CHOOSE k \in good : \A j \in good : k <= j]

\* C24: once a candidate of two or more words has been recorded as the
\* running best, no later pattern is examined and the returned name is that
\* candidate.
C24_StopsAtGoodCandidate ==
    (stage = "nama" /\ tpc = "returned"
        /\ \E k \in 1..Len(out.recorded) : WordCount(out.recorded[k].value) >= 2) =>
        /\ out.examined[Len(out.examined)] = FirstGoodCandidate.pattern
        /\ out.value = FirstGoodCandidate.value

----------------------------------------------------------------------------
(* 02_case_representation.py: extract_ringkasan_fakta *)

\* one or more whitespace characters between the words of a marker
Words(ws) ==
    Cat([k \in 1..(2 * Len(ws) - 1) |-> IF k % 2 = 1 THEN LitI(ws[(k + 1) \div 2]) ELSE Plus(Cls(Space))])

\* lines 352-361
start_keywords ==
    << Words(<<<<"D", "U", "D", "U", "K">>, <<"P", "E", "R", "K", "A", "R", "A">>>>),
       Cat(<<LitI(<<"I", ".">>), Star(Cls(Space)), LitI(<<"P", "E", "R", "K", "A", "R", "A">>)>>),
       LitI(<<"F", "A", "K", "T", "A", "-", "F", "A", "K", "T", "A">>),
       Cat(<<LitI(<<"M", "E", "N", "I", "M", "B", "A", "N", "G">>),
             Opt(Alt(<<Cat(<<Plus(Cls(Space)), LitI(<<"B", "A", "H", "W", "A">>)>>),
                       Cat(<<Cls({","}), Plus(Cls(Space)), LitI(<<"b", "a", "h", "w", "a">>)>>)>>)),
             Plus(Cls(Space)), LitI(<<"p", "e", "r", "m", "o", "h", "o", "n", "a", "n">>)>>),
       Words(<<<<"D", "A", "L", "A", "M">>, <<"P", "O", "K", "O", "K">>, <<"P", "E", "R", "K", "A", "R", "A">>>>),
       Words(<<<<"T", "E", "N", "T", "A", "N", "G">>, <<"P", "E", "R", "K", "A", "R", "A">>>>),
       Words(<<<<"P", "O", "K", "O", "K">>, <<"G", "U", "G", "A", "T", "A", "N">>>>),
       Words(<<<<"U", "R", "A", "I", "A", "N">>, <<"P", "E", "R", "B", "U", "A", "T", "A", "N">>>>) >>

\* lines 364-373
end_keywords ==
    << Words(<<<<"T", "E", "N", "T", "A", "N", "G">>, <<"H", "U", "K", "U", "M">>>>),
       Cat(<<LitI(<<"M", "E", "N", "I", "M", "B", "A", "N", "G">>),
             Opt(Alt(<<Cat(<<Plus(Cls(Space)), LitI(<<"T", "E", "N", "T", "A", "N", "G">>)>>),
                       Cat(<<Cls({","}), Plus(Cls(Space)), LitI(<<"t", "e", "n", "t", "a", "n", "g">>)>>)>>)),
             Plus(Cls(Space)), LitI(<<"H", "U", "K", "U", "M">>)>>),
       Words(<<<<"D", "A", "L", "A", "M">>, <<"P", "E", "R", "T", "I", "M", "B", "A", "N", "G", "A", "N">>, <<"H", "U", "K", "U", "M">>>>),
       LitI(<<"M", "E", "M", "U", "T", "U", "S", "K", "A", "N">>),
       LitI(<<"M", "E", "N", "G", "A", "D", "I", "L", "I">>),
       Words(<<<<"A", "M", "A", "R">>, <<"P", "U", "T", "U", "S", "A", "N">>>>),
       Words(<<<<"D", "A", "L", "A", "M">>, <<"E", "K", "S", "E", "P", "S", "I">>>>),
       Words(<<<<"D", "e", "m", "i", "k", "i", "a", "n">>, <<"d", "i", "p", "u", "t", "u", "s">>, <<"d", "a", "l", "a", "m">>, <<"r", "a", "p", "a", "t">>, <<"m", "u", "s", "y", "a", "w", "a", "r", "a", "h">>>>) >>

\* lines 379-383 and 387-391: the match of the first pattern, in list
\* order, that is found in text at or after position pos
RECURSIVE FirstKeyword(_, _, _, _)
FirstKeyword(patterns, k, text, pos) ==
    IF k > Len(patterns) THEN NoMatch
    ELSE OrElse(Search(patterns[k], text, pos), FirstKeyword(patterns, k + 1, text, pos))

\* re.sub(pattern, '', text) for a pattern that starts with ^
StripPrefix(pattern, text) ==
    LET m == MatchAt(pattern, text, 1)
    IN IF m.ok THEN SubSeq(text, m.end, Len(text)) ELSE text

\* line 406
HeaderPattern ==
    Star(Alt(<<Cat(<<Words(<<<<"P", "U", "T", "U", "S", "A", "N">>, <<"N", "O", "M", "O", "R">>>>), Plus(Cls(Space)), LazyRep(Cls(AnyChar), 0, InfRep),
                     Words(<<<<"D", "E", "N", "G", "A", "N">>, <<"R", "A", "H", "M", "A", "T">>, <<"T", "U", "H", "A", "N">>, <<"Y", "A", "N", "G">>, <<"M", "A", "H", "A">>, <<"E", "S", "A">>>>)>>),
               Cat(<<Words(<<<<"P", "E", "N", "G", "A", "D", "I", "L", "A", "N">>, <<"N", "E", "G", "E", "R", "I">>>>), LazyRep(Cls(AnyChar), 0, InfRep),
                     Plus(Cls({"\n"}))>>)>>))

\* lines 418-424: the line is kept
SubstantialLine(stripped_line) ==
    \/ /\ Len(stripped_line) > 50
       /\ ~FullMatch(Cat(<<Star(Cls(Space)), Opt(Cls({"-", "_"})), Star(Cls(Space)), Plus(Cls(Digit)),
                           Star(Cls(Space)), Opt(Cls({"-", "_"})), Star(Cls(Space))>>), stripped_line)
       /\ ~FullMatch(Cat(<<Star(Cls(Space)), Plus(Cls(Upper \cup Space)), Star(Cls(Space))>>), stripped_line)
       /\ ~FullMatch(Star(Cls(AnyChar \ (Letter \cup Digit))), stripped_line)
    \/ /\ Len(stripped_line) > 10
       /\ \E i \in 1..Len(stripped_line) : stripped_line[i] \in Letter \cup Digit

\* lines 403-426: the heuristic fallback
HeuristicFallback(text) ==
    LET text_after_header_clean == Strip(StripPrefix(HeaderPattern, text))
        lines == Split(text_after_header_clean, "\n")
        content_candidate_lines ==
            SelectSeq([i \in 1..Len(lines) |-> Strip(lines[i])], SubstantialLine)
    IN Strip(Join(<<"\n">>, content_candidate_lines))

\* lines 432-439
general_cleanup_patterns ==
    << Cat(<<LitI(<<"D", "i", "s", "c", "l", "a", "i", "m", "e", "r">>), Star(Cls(Space)), Cls({":", "-"}), Star(Cls(AnyChar)), Eos>>),
       Cat(<<LitI(<<"H", "a", "l", "a", "m", "a", "n">>), Plus(Cls(Space)), Plus(Cls(Digit)), Plus(Cls(Space)), LitI(<<"d", "a", "r", "i">>),
             Plus(Cls(Space)), Plus(Cls(Digit)), Star(Cls(AnyChar)), Eos>>),
       Cat(<<Words(<<<<"M", "A", "H", "K", "A", "M", "A", "H">>, <<"A", "G", "U", "N", "G">>>>), Star(Cls(AnyChar)), Eos>>),
       Cat(<<LitI(<<"K", "e", "p", "a", "n", "i", "t", "e", "r", "a", "a", "n">>), Star(Cls(AnyChar)), LitI(<<"@", "m", "a", "h", "k", "a", "m", "a", "h", "a", "g", "u", "n", "g", ".", "g", "o", ".", "i", "d">>), Star(Cls(AnyChar)), Eos>>),
       Cat(<<LitI(<<"C", "a", "t", "a", "t", "a", "n">>), Star(Cls(Space)), Cls({":"}), Star(Cls(Space)), LitI(<<"P", "u", "t", "u", "s", "a", "n">>),
             Star(Cls(Space)), LitI(<<"i", "n", "i">>), Star(Cls(AnyChar)), Eos>>),
       Cat(<<Wb, LitI(<<"S", "A", "L", "I", "N", "A", "N">>), Wb, LazyRep(Cls(AnyChar), 0, InfRep), Wb, LitI(<<"P", "A", "N", "I", "T", "E", "R", "A">>), Wb>>) >>

\* lines 440-441
RECURSIVE GeneralCleanup(_, _)
GeneralCleanup(extracted_content, k) ==
    IF k > Len(general_cleanup_patterns) THEN extracted_content
    ELSE GeneralCleanup(ReSub(general_cleanup_patterns[k], <<>>, extracted_content), k + 1)

\* s.rfind(c) + 1: the last position of c in s, 0 when there is none
RFind(s, c) ==
    LET at == { i \in 1..Len(s) : s[i] = c }
    IN IF at = {} THEN 0 ELSE CHOOSE i \in at : \A j \in at : j <= i

\* s.rsplit(' ', 1)[0]
BeforeLastBlank(s) == IF RFind(s, " ") = 0 THEN s ELSE SubSeq(s, 1, RFind(s, " ") - 1)

\* lines 445-451: the cut to the maximal length
CutToMax(extracted_content, min_len, max_len) ==
    IF Len(extracted_content) > max_len
    THEN LET cut == Take(extracted_content, max_len)
             last_period == RFind(cut, ".") - 1
         IN IF last_period > min_len THEN Take(cut, last_period + 1)
            ELSE BeforeLastBlank(cut) \o Ellipsis
    ELSE extracted_content

\* line 458
AggressiveHeaderPattern ==
    Opt(Grp(1, Cat(<<LazyRep(Cls(AnyChar), 0, InfRep), Words(<<<<"P", "U", "T", "U", "S", "A", "N">>, <<"N", "O", "M", "O", "R">>>>), Plus(Cls(Space)),
                     LazyRep(Cls(AnyChar), 0, InfRep),
                     Alt(<<Words(<<<<"D", "E", "N", "G", "A", "N">>, <<"R", "A", "H", "M", "A", "T">>, <<"T", "U", "H", "A", "N">>, <<"Y", "A", "N", "G">>, <<"M", "A", "H", "A">>, <<"E", "S", "A">>>>),
                           Words(<<<<"M", "A", "J", "E", "L", "I", "S">>, <<"H", "A", "K", "I", "M">>>>), LitI(<<"M", "E", "N", "I", "M", "B", "A", "N", "G">>), LitI(<<"M", "E", "N", "G", "A", "D", "I", "L", "I">>)>>),
                     LazyRep(Cls(Space), 0, InfRep), Plus(Cls({"\n"}))>>)))

\* lines 375-401: the segment between the markers
FactSegment(text) ==
    LET start == FirstKeyword(start_keywords, 1, text, 1)
        end == FirstKeyword(end_keywords, 1, text, IF start.ok THEN start.end ELSE 1)
    IN IF start.ok /\ end.ok /\ end.start > start.end
       THEN [path |-> "between", content |-> Strip(SubSeq(text, start.end, end.start - 1))]
       ELSE IF start.ok
       THEN [path |-> "from_start", content |-> Strip(SubSeq(text, start.end, Len(text)))]
       ELSE IF end.ok
       THEN [path |-> "to_end", content |-> Strip(SubSeq(text, 1, end.start - 1))]
       ELSE [path |-> "heuristic", content |-> HeuristicFallback(text)]

\* extract_ringkasan_fakta(text, min_len, max_len), lines 342-468: the value
\* returned and the path taken through the length window
extract_ringkasan_fakta(raw_text, min_len, max_len) ==
    LET text == clean_text(raw_text)
        segment == FactSegment(text)
        cleaned_content == clean_text(GeneralCleanup(clean_text(segment.content), 1))
        extracted_content == CutToMax(cleaned_content, min_len, max_len)
        aggressive_fallback_text == clean_text(StripPrefix(AggressiveHeaderPattern, text))
    IN IF text = <<>> THEN [value |-> <<>>, window |-> "empty"]
       ELSE IF Len(extracted_content) < min_len /\ Len(text) >= min_len
       THEN [value |-> IF Len(aggressive_fallback_text) > min_len
                       THEN Strip(Take(aggressive_fallback_text, min_len)) \o Ellipsis
                       ELSE Strip(aggressive_fallback_text),
             window |-> "too_short"]
       ELSE [value |-> Strip(extracted_content),
             window |-> IF Len(cleaned_content) > max_len THEN "too_long" ELSE "within"]

SummaryFragments ==
    { <<"F", "A", "K", "T", "A", "-", "F", "A", "K", "T", "A", " ">>, <<"M", "E", "N", "G", "A", "D", "I", "L", "I">>, <<"a", "b", ".", " ">>, <<"c", "d", "e", "f", "g", "h", "i", "j", "k", "l", "m", "n">>, <<"o", "p", " ", "q", "r">>, <<"\n">> }

InitSummary ==
    /\ stage = "ringkasan"
    /\ fn = "extract_ringkasan_fakta"
    /\ doc \in [text : TextsOf(SummaryFragments, MaxSummaryFrags), min_len : {MinLenArg}, max_len : {MaxLenArg}]
    /\ tpc = "input"
    /\ now_year = 0
    /\ cleaned = <<>>
    /\ out = <<>>
    /\ IdleRetrieval /\ IdlePredict /\ IdleExtract

ExtractSummary ==
    /\ stage = "ringkasan" /\ tpc = "input"
    /\ out' = extract_ringkasan_fakta(doc.text, doc.min_len, doc.max_len)
    /\ tpc' = "returned"
    /\ UNCHANGED <<stage, now_year, fn, doc, cleaned, retrievalVars, predictVars, extractVars>>

NextSummary == ExtractSummary

SpecSummary == InitSummary /\ [][NextSummary]_vars

\* C25: the summary returned by extract_ringkasan_fakta never has more than
\* max_len characters, the cut at the last blank with the ellipsis marker
\* included, and on the too-short path it has at most min_len characters
\* plus the ellipsis marker.
C25_LengthWindow ==
    (stage = "ringkasan" /\ tpc = "returned") =>
        /\ Len(out.value) <= doc.max_len
        /\ out.window = "too_short" => Len(out.value) <= doc.min_len + Len(Ellipsis)

----------------------------------------------------------------------------
(* make_queries.py: create_query_text.  A case is as for
   extract_case_text_for_retrieval; the result is [found, text, fields],
   found being false where the code returns (None, None). *)

\* lines 82-94: the combinations and their names
query_field_combinations ==
    << [fields |-> <<"ringkasan_fakta">>, name |-> "ringkasan_fakta"],
       [fields |-> <<"jenis_perkara", "pasal", "status_hukuman">>, name |-> "jenis_perkara, pasal, status_hukuman"],
       [fields |-> <<"jenis_perkara", "pasal">>, name |-> "jenis_perkara, pasal"],
       [fields |-> <<"no_perkara", "jenis_perkara", "tanggal">>, name |-> "no_perkara, jenis_perkara, tanggal"] >>

\* lines 104-107, on the stripped value
QueryUsable(value) ==
    /\ value # <<>>
    /\ value \notin { <<"=", "=", "=">>, <<"-", "-", "-">>, <<".", ".", ".">>, <<"N", "/", "A">>, <<"n", "u", "l", "l">>, <<"u", "n", "d", "e", "f", "i", "n", "e", "d">> }
    /\ Cardinality({ value[i] : i \in 1..Len(value) }) > 1
    /\ Len(value) >= 10

\* the value appended without any cut
QueryValue_NoCut(field, value) == value

\* lines 110-115: the value appended to text_parts
QueryValue(field, value) ==
    IF field = "pasal" /\ Len(value) > 200 THEN Take(value, 200) \o <<".", ".", ".">>
    ELSE IF field = "status_hukuman" /\ Len(value) > 300 THEN Take(value, 300) \o <<".", ".", ".">>
    ELSE value

\* lines 99-117: text_parts of one combination
RECURSIVE QueryTextParts(_, _, _)
QueryTextParts(case, fields_to_try, i) ==
    IF i > Len(fields_to_try) THEN <<>>
    ELSE LET field == fields_to_try[i]
             value == Strip(case[field].value)
             rest == QueryTextParts(case, fields_to_try, i + 1)
         IN IF case[field].is_str /\ QueryUsable(value)
            THEN <<QueryValue(field, value)>> \o rest
            ELSE rest

\* the loop that takes a combination only when every one of its fields is usable
RECURSIVE QueryTryCombinations_AllFields(_, _)
QueryTryCombinations_AllFields(case, c) ==
    IF c > Len(query_field_combinations) THEN [found |-> FALSE, text |-> <<>>, fields |-> "none"]
    ELSE LET text_parts == QueryTextParts(case, query_field_combinations[c].fields, 1)
         IN IF Len(text_parts) = Len(query_field_combinations[c].fields)
            THEN [found |-> TRUE, text |-> Join(<<".", " ">>, text_parts), fields |-> query_field_combinations[c].name]
            ELSE QueryTryCombinations_AllFields(case, c + 1)

\* lines 96-128: the loop over the combinations, from combination c
RECURSIVE QueryTryCombinations(_, _)
QueryTryCombinations(case, c) ==
    IF c > Len(query_field_combinations) THEN [found |-> FALSE, text |-> <<>>, fields |-> "none"]
    ELSE LET text_parts == QueryTextParts(case, query_field_combinations[c].fields, 1)
         IN IF text_parts # <<>>
            THEN [found |-> TRUE,
                  text |-> IF Len(text_parts) = 1 THEN text_parts[1] ELSE Join(<<".", " ">>, text_parts),
                  fields |-> query_field_combinations[c].name]
            ELSE QueryTryCombinations(case, c + 1)

create_query_text(case) == QueryTryCombinations(case, 1)

InitQueryText ==
    /\ stage = "query_text"
    /\ fn = "create_query_text"
    /\ doc \in [ringkasan_fakta : CaseFieldValues.ringkasan_fakta,
                 jenis_perkara : CaseFieldValues.jenis_perkara,
                 pasal : CaseFieldValues.pasal,
                 status_hukuman : CaseFieldValues.status_hukuman,
                 no_perkara : CaseFieldValues.no_perkara,
                 tanggal : CaseFieldValues.tanggal]
    /\ now_year = 0
    /\ tpc = "input"
    /\ cleaned = <<>>
    /\ out = <<>>
    /\ IdleRetrieval /\ IdlePredict /\ IdleExtract

\* the query text make_queries.py builds for a case and the corpus text
\* 03_retrieval.py builds for the same case
QueryAndCorpusText ==
    /\ stage = "query_text" /\ tpc = "input"
    /\ out' = [query |-> create_query_text(doc), corpus |-> extract_case_text_for_retrieval(doc)]
    /\ tpc' = "returned"
    /\ UNCHANGED <<stage, now_year, fn, doc, cleaned, retrievalVars, predictVars, extractVars>>

NextQueryText == QueryAndCorpusText

SpecQueryText == InitQueryText /\ [][NextQueryText]_vars

\* C26: for every case record create_query_text returns the text that
\* extract_case_text_for_retrieval returns: both None, or the same string.
C26_SameTextAsRetrieval ==
    (stage = "query_text" /\ tpc = "returned") =>
        /\ out.query.found = out.corpus.found
        /\ out.query.found => out.query.text = out.corpus.text

\* witness of C26: both texts are the same three parts, a statute field and
\* a verdict field cut with the marker among them
C26_Witness ==
    /\ stage = "query_text" /\ tpc = "returned"
    /\ out.query.found /\ out.corpus.found
    /\ out.query.fields = "jenis_perkara, pasal, status_hukuman"
    /\ Len(doc.pasal.value) > 200 /\ Len(doc.status_hukuman.value) > 300
    /\ out.query.text = out.corpus.text
    /\ Len(out.query.text) = Len(doc.jenis_perkara.value) + 2 + 203 + 2 + 303

\* the combination has a usable field in the case
HasUsableField(c) ==
    \E i \in 1..Len(query_field_combinations[c].fields) :
        LET f == query_field_combinations[c].fields[i]
        IN doc[f].is_str /\ QueryUsable(Strip(doc[f].value))

\* C27: the third combination [jenis_perkara, pasal] is never the one
\* selected: whenever it has a usable field the second combination has one
\* already, and create_query_text never reports 'jenis_perkara, pasal' as
\* the fields used.
C27_ThirdCombinationUnused ==
    (stage = "query_text" /\ tpc = "returned") =>
        /\ out.query.fields # "jenis_perkara, pasal"
        /\ HasUsableField(3) => /\ HasUsableField(2)
                                /\ out.query.fields \in {"ringkasan_fakta", "jenis_perkara, pasal, status_hukuman"}
                                /\ out.corpus.found

\* witness of C27: the summary and the verdict are unusable, the category
\* and the statutes are usable, and the second combination is reported
C27_Witness ==
    /\ stage = "query_text" /\ tpc = "returned"
    /\ ~HasUsableField(1)
    /\ HasUsableField(3)
    /\ ~(doc.status_hukuman.is_str /\ QueryUsable(Strip(doc.status_hukuman.value)))
    /\ out.query.fields = "jenis_perkara, pasal, status_hukuman"
    /\ Len(QueryTextParts(doc, <<"jenis_perkara", "pasal">>, 1)) = 2
    /\ out.query.text = Join(<<".", " ">>, QueryTextParts(doc, <<"jenis_perkara", "pasal">>, 1))

----------------------------------------------------------------------------
(* 01_pdf_to_text.py: main with the raw text directory.  doc holds the PDF
   files found (the stem of each and what happens when it is converted) and
   the names of the files of RAW_TXT_DIR before the run; out holds the locals
   of main, the number of passes of the loop made and the directory. *)

\* str.strip('_')
RECURSIVE StripUnderscores(_)
StripUnderscores(s) ==
    IF s # <<>> /\ Head(s) = "_" THEN StripUnderscores(Tail(s))
    ELSE IF s # <<>> /\ s[Len(s)] = "_" THEN StripUnderscores(SubSeq(s, 1, Len(s) - 1))
    ELSE s

\* generate_raw_text_filename, lines 36-51
generate_raw_text_filename(pdf_filename_stem) ==
    LET lowered == StrLower(pdf_filename_stem)
        clean_name == [i \in 1..Len(lowered) |->
                          IF lowered[i] \in WordChar \cup {"-", "."} THEN lowered[i] ELSE "_"]
    IN StripUnderscores(ReSub(Plus(Cls({"_"})), <<"_">>, clean_name))

\* line 314: f"{file_stem}.txt"
RawTextName(file_stem) == file_stem \o <<".", "t", "x", "t">>

\* Path.stem: the name up to its last dot, the whole name when the last dot
\* is its first or its last character or it has none
PathStem(name) ==
    IF RFind(name, ".") > 1 /\ RFind(name, ".") < Len(name)
    THEN SubSeq(name, 1, RFind(name, ".") - 1)
    ELSE name

\* RAW_TXT_DIR.glob("*.txt")
GlobTxt(names) ==
    { n \in names : Len(n) >= 4 /\ SubSeq(n, Len(n) - 3, Len(n)) = <<".", "t", "x", "t">> }

\* line 286
existing_raw_txt_files(names) == { PathStem(n) : n \in GlobTxt(names) }

PdfStems == { <<"a", " ", "b">>, <<"A", "_", "B">>, <<"_">> }

ConversionOutcomes == {"raises", "short", "save_fails", "ok"}

\* the files a former run can have left in RAW_TXT_DIR
FormerRawTexts == { RawTextName(generate_raw_text_filename(s)) : s \in PdfStems }

InitPdfRun ==
    /\ stage = "pdf_run"
    /\ fn = "01_pdf_to_text"
    /\ \E n \in 0..MaxRunPdfs :
          doc \in [pdf_files : [1..n -> [stem : PdfStems, outcome : ConversionOutcomes]],
                   raw_before : SUBSET FormerRawTexts]
    /\ now_year = 0
    /\ tpc = "input"
    /\ cleaned = <<>>
    /\ out = <<>>
    /\ IdleRetrieval /\ IdlePredict /\ IdleExtract

\* lines 274-291: up to the loop; main returns when there is no PDF file
PdfRunStart ==
    /\ stage = "pdf_run" /\ tpc = "input"
    /\ out' = [existing_raw_txt_files |-> existing_raw_txt_files(doc.raw_before),
               processed_count |-> 0, failed_count |-> 0, skipped_count |-> 0,
               handled |-> 0, skipped |-> {},
               raw_dir |-> [n \in doc.raw_before |-> "old"]]
    /\ tpc' = IF doc.pdf_files = <<>> THEN "returned" ELSE "loop"
    /\ UNCHANGED <<stage, now_year, fn, doc, cleaned, retrievalVars, predictVars, extractVars>>

\* the directory after open(file_path, "w") and f.write(content)
Written(raw_dir, name, content) ==
    [n \in DOMAIN raw_dir \cup {name} |-> IF n = name THEN content ELSE raw_dir[n]]

\* lines 294-328: one pass of the loop
PdfRunPass ==
    /\ stage = "pdf_run" /\ tpc = "loop" /\ out.handled < Len(doc.pdf_files)
    /\ LET pdf == doc.pdf_files[out.handled + 1]
           file_stem == generate_raw_text_filename(pdf.stem)
           counted == [out EXCEPT !.handled = @ + 1]
       IN IF file_stem \in out.existing_raw_txt_files
          THEN out' = [counted EXCEPT !.skipped_count = @ + 1, !.skipped = @ \cup {out.handled + 1}]
          ELSE IF pdf.outcome \in {"raises", "short"}
          THEN out' = [counted EXCEPT !.failed_count = @ + 1]
          ELSE IF pdf.outcome = "save_fails"
          \* save_text_file failed before or after the file was opened for writing
          THEN \E damaged \in BOOLEAN :
                  out' = [counted EXCEPT !.failed_count = @ + 1,
                             !.raw_dir = IF damaged THEN Written(@, RawTextName(file_stem), "partial") ELSE @]
          ELSE out' = [counted EXCEPT !.processed_count = @ + 1,
                          !.raw_dir = Written(@, RawTextName(file_stem), "new")]
    /\ UNCHANGED <<stage, now_year, fn, doc, tpc, cleaned, retrievalVars, predictVars, extractVars>>

\* lines 330-336: the summary
PdfRunSummary ==
    /\ stage = "pdf_run" /\ tpc = "loop" /\ out.handled = Len(doc.pdf_files)
    /\ tpc' = "returned"
    /\ UNCHANGED <<stage, now_year, fn, doc, cleaned, out, retrievalVars, predictVars, extractVars>>

NextPdfRun == PdfRunStart \/ PdfRunPass \/ PdfRunSummary

SpecPdfRun == InitPdfRun /\ [][NextPdfRun]_vars

\* C30: every PDF is accounted for exactly once: after each pass of the loop
\* and at the summary processed_count + failed_count + skipped_count is the
\* number of PDFs handled so far; and a PDF whose sanitized stem has its raw
\* text file in the directory before the run is skipped, that file being
\* left as it was.
C30_AccountedOnce ==
    (stage = "pdf_run" /\ tpc \in {"loop", "returned"}) =>
        /\ out.processed_count + out.failed_count + out.skipped_count = out.handled
        /\ (tpc = "returned" /\ doc.pdf_files # <<>>) => out.handled = Len(doc.pdf_files)
        /\ \A k \in 1..out.handled :
              LET name == RawTextName(generate_raw_text_filename(doc.pdf_files[k].stem))
              IN name \in doc.raw_before =>
                    /\ k \in out.skipped
                    /\ out.raw_dir[name] = "old"

============================================================================
